---- MODULE Spec2Model ----
(***************************************************************************)
(* Model of the class-resolution core of arto:                             *)
(*   - normalizeClassName   (utils/normalize-class-name.ts)                *)
(*   - evaluateSimpleLogic  (plugins/rules-plugin.ts)                      *)
(*   - ClassNameBuilder     (classname-builder.ts) and the plugins that    *)
(*     fill its buckets, driven by the resolver returned by arto()         *)
(* Three specifications share the module: SpecNorm runs the normalizer's   *)
(* loop one iteration per step, SpecLogic applies the logic evaluator, and *)
(* Spec runs one resolution call (constructor, build(), the microtasks     *)
(* left behind by asynchronous plugins).                                   *)
(***************************************************************************)
EXTENDS Integers, Sequences, FiniteSets, TLC

(***************************************************************************)
(* Bounds of the model.                                                    *)
(***************************************************************************)
\* longest source string drawn as a whole class expression
MaxStrLen == 3
\* longest list of conditions handed to the logic evaluator
MaxConds == 3
\* most local plugins handed to arto()
MaxPlugins == 3

(***************************************************************************)
(* Generic helpers on sequences.                                           *)
(***************************************************************************)
Range(s) == {s[i] : i \in 1..Len(s)}

RECURSIVE Reverse(_)
Reverse(s) == IF s = <<>> THEN <<>> ELSE Append(Reverse(Tail(s)), Head(s))

RECURSIVE Flatten(_)
\* concatenation of a sequence of sequences
Flatten(ss) == IF ss = <<>> THEN <<>> ELSE Head(ss) \o Flatten(Tail(ss))

\* JS Set.add on an insertion-ordered set kept as a duplicate-free sequence
SetAdd(s, x) == IF x \in Range(s) THEN s ELSE Append(s, x)

RECURSIVE SetAddAll(_, _)
SetAddAll(s, xs) == IF xs = <<>> THEN s ELSE SetAddAll(SetAdd(s, Head(xs)), Tail(xs))

(***************************************************************************)
(* Class expressions (types/class-name.ts).  A string is a sequence of     *)
(* characters, so that splitting on whitespace is computed, not assumed.   *)
(***************************************************************************)
Str(s) == [k |-> "str", v |-> s]
Arr(items) == [k |-> "arr", v |-> items]
Fn(c) == [k |-> "fn", v |-> c]
\* null / undefined
Null == [k |-> "null", v |-> <<>>]
\* a value of unsupported type (number, plain object)
Num == [k |-> "num", v |-> <<>>]
\* a plain object, as a value of unsupported type
PlainObject == [k |-> "object", v |-> <<>>]
\* the falsy non-string returns of a callback: false, undefined
Falsy == [k |-> "falsy", v |-> <<>>]
\* a callback that throws: an Error carrying `msg`, or a non-Error value
\* whose String() is `msg`
Throws(isError, msg) == [k |-> "throw", v |-> <<isError, msg>>]

Whitespace == {" ", "\t"}
Chars == {"a", "b"} \cup Whitespace
Callbacks == {"f", "g"}

RECURSIVE SplitFrom(_, _, _)
\* item.split(/\s+/).filter(Boolean): the maximal runs of non-whitespace
\* characters of s, left to right; cur is the run being read
SplitFrom(s, cur, acc) ==
    IF s = <<>>
    THEN IF cur = <<>> THEN acc ELSE Append(acc, cur)
    ELSE IF Head(s) \in Whitespace
         THEN SplitFrom(Tail(s), <<>>, IF cur = <<>> THEN acc ELSE Append(acc, cur))
         ELSE SplitFrom(Tail(s), Append(cur, Head(s)), acc)

SplitWhitespace(s) == SplitFrom(s, <<>>, <<>>)

RECURSIVE JoinSpace(_)
\* classList.join(' ')
JoinSpace(tokens) ==
    IF tokens = <<>> THEN <<>>
    ELSE IF Len(tokens) = 1 THEN Head(tokens)
    ELSE Head(tokens) \o <<" ">> \o JoinSpace(Tail(tokens))

\* JS truthiness of what a callback returned: false, undefined, null and the
\* empty string are falsy; every array (also the empty one) and every
\* function is truthy
Truthy(r) ==
    CASE r.k = "falsy" -> FALSE
      [] r.k = "null" -> FALSE
      [] r.k = "str" -> r.v # <<>>
      [] OTHER -> TRUE

(***************************************************************************)
(* errors.ts                                                               *)
(***************************************************************************)
ArtoErrorPrefix == "[Arto Error]: "

\* new ArtoError(message): name 'ArtoError', message prefixed
ArtoError(message) == [name |-> "ArtoError", message |-> ArtoErrorPrefix \o message]

NoError == [name |-> "", message |-> ""]

(***************************************************************************)
(* normalizeClassName: the state of one call and one iteration of its      *)
(* while loop.  cbs maps each callback identity to what it returns (or     *)
(* throws) for the context of the call.                                    *)
(***************************************************************************)
NormStart(input) ==
    [stack |-> <<input>>, result |-> <<>>, seenCallbacks |-> {},
     warnings |-> <<>>, calls |-> <<>>, status |-> "run",
     returned |-> <<>>, error |-> NoError]

Pop(st) == [st EXCEPT !.stack = SubSeq(st.stack, 1, Len(st.stack) - 1)]

\* NormCatch with the error swallowed: the loop goes on with the next item
NormCatchSwallow(st, thrown) == st

\* the catch block: both branches build the same text, from error.message
\* or from String(error)
NormCatch(st, thrown) ==
    [st EXCEPT !.status = "error",
               !.error = ArtoError("Error resolving class function: " \o thrown[2])]

\* NormInvoke without seenCallbacks.add(item)
NormInvokeNotRecorded(st, c, cbs) ==
    LET st1 == [st EXCEPT !.calls = Append(@, c)]
        resolved == cbs[c]
    IN  IF resolved.k = "throw" THEN NormCatch(st1, resolved.v)
        ELSE IF Truthy(resolved) THEN [st1 EXCEPT !.stack = Append(@, resolved)]
        ELSE st1

\* the function branch, once the callback is known not to be in seenCallbacks
NormInvoke(st, c, cbs) ==
    LET st1 == [st EXCEPT !.seenCallbacks = @ \cup {c}, !.calls = Append(@, c)]
        resolved == cbs[c]
    IN  IF resolved.k = "throw" THEN NormCatch(st1, resolved.v)
        ELSE IF Truthy(resolved) THEN [st1 EXCEPT !.stack = Append(@, resolved)]
        ELSE st1

\* NormStepF with the children of an array pushed in forward order, so that
\* they pop last-first
NormStepFForwardPush(st, cbs) ==
    LET item == st.stack[Len(st.stack)]
        st0 == Pop(st)
    IN  CASE item.k = "null" -> st0
          [] item.k = "str" ->
                [st0 EXCEPT !.result = SetAddAll(@, SplitWhitespace(item.v))]
          [] item.k = "arr" ->
                [st0 EXCEPT !.stack = @ \o item.v]
          [] item.k = "fn" ->
                IF item.v \in st0.seenCallbacks
                THEN [st0 EXCEPT !.warnings = Append(@, "cyclic")]
                ELSE NormInvoke(st0, item.v, cbs)
          [] OTHER -> [st0 EXCEPT !.warnings = Append(@, "unsupported")]

\* NormStepF with the fragments of a string added last-first
NormStepFFragmentsReversed(st, cbs) ==
    LET item == st.stack[Len(st.stack)]
        st0 == Pop(st)
    IN  CASE item.k = "null" -> st0
          [] item.k = "str" ->
                [st0 EXCEPT !.result = SetAddAll(@, Reverse(SplitWhitespace(item.v)))]
          [] item.k = "arr" ->
                [st0 EXCEPT !.stack = @ \o Reverse(item.v)]
          [] item.k = "fn" ->
                IF item.v \in st0.seenCallbacks
                THEN [st0 EXCEPT !.warnings = Append(@, "cyclic")]
                ELSE NormInvoke(st0, item.v, cbs)
          [] OTHER -> [st0 EXCEPT !.warnings = Append(@, "unsupported")]

\* NormStepF with a value of unsupported type ending the traversal
NormStepFStopAtUnsupported(st, cbs) ==
    LET item == st.stack[Len(st.stack)]
        st0 == Pop(st)
    IN  CASE item.k = "null" -> st0
          [] item.k = "str" ->
                [st0 EXCEPT !.result = SetAddAll(@, SplitWhitespace(item.v))]
          [] item.k = "arr" ->
                [st0 EXCEPT !.stack = @ \o Reverse(item.v)]
          [] item.k = "fn" ->
                IF item.v \in st0.seenCallbacks
                THEN [st0 EXCEPT !.warnings = Append(@, "cyclic")]
                ELSE NormInvoke(st0, item.v, cbs)
          [] OTHER -> [st0 EXCEPT !.stack = <<>>, !.warnings = Append(@, "unsupported")]

\* NormStepF without the seenCallbacks test: every occurrence is invoked
NormStepFNoCycleGuard(st, cbs) ==
    LET item == st.stack[Len(st.stack)]
        st0 == Pop(st)
    IN  CASE item.k = "null" -> st0
          [] item.k = "str" ->
                [st0 EXCEPT !.result = SetAddAll(@, SplitWhitespace(item.v))]
          [] item.k = "arr" ->
                [st0 EXCEPT !.stack = @ \o Reverse(item.v)]
          [] item.k = "fn" -> NormInvoke(st0, item.v, cbs)
          [] OTHER -> [st0 EXCEPT !.warnings = Append(@, "unsupported")]

NormStepF(st, cbs) ==
    LET item == st.stack[Len(st.stack)]
        st0 == Pop(st)
    IN  CASE item.k = "null" -> st0
          [] item.k = "str" ->
                [st0 EXCEPT !.result = SetAddAll(@, SplitWhitespace(item.v))]
          [] item.k = "arr" ->
                [st0 EXCEPT !.stack = @ \o Reverse(item.v)]
          [] item.k = "fn" ->
                IF item.v \in st0.seenCallbacks
                THEN [st0 EXCEPT !.warnings = Append(@, "cyclic")]
                ELSE NormInvoke(st0, item.v, cbs)
          [] OTHER -> [st0 EXCEPT !.warnings = Append(@, "unsupported")]

\* return Array.from(result), once the stack is empty
NormReturnF(st) == [st EXCEPT !.status = "done", !.returned = st.result]

RECURSIVE NormRun(_, _)
NormRun(st, cbs) ==
    IF st.status # "run" THEN st
    ELSE IF st.stack = <<>> THEN NormReturnF(st)
    ELSE NormRun(NormStepF(st, cbs), cbs)

\* the outcome of a whole call: the token list returned, or the ArtoError
\* raised
normalizeClassName(input, cbs) ==
    LET fin == NormRun(NormStart(input), cbs)
    IN  [ok |-> fin.status = "done", value |-> fin.returned, error |-> fin.error]

(***************************************************************************)
(* evaluateSimpleLogic (plugins/rules-plugin.ts).                          *)
(***************************************************************************)
\* an omitted operator
Undefined == "undefined"

LogicOperators == {"AND", "OR", "NOT", "XOR", "IMPLIES"}

\* conditions.every(Boolean)
Every(conditions) == \A i \in 1..Len(conditions) : conditions[i]

\* conditions.some(Boolean)
Some(conditions) == \E i \in 1..Len(conditions) : conditions[i]

IsTrue(c) == c

\* evaluateSimpleLogic with XOR read as "an odd number of conditions hold"
evaluateSimpleLogicXorParity(conditions, op) ==
    LET logic == IF op = Undefined THEN "AND" ELSE op
    IN  CASE logic = "AND" -> Every(conditions)
          [] logic = "OR" -> Some(conditions)
          [] logic = "NOT" -> Every([i \in 1..Len(conditions) |-> ~conditions[i]])
          [] logic = "XOR" -> Len(SelectSeq(conditions, IsTrue)) % 2 = 1
          [] logic = "IMPLIES" ->
                IF Len(conditions) < 2 THEN TRUE ELSE ~conditions[1] \/ conditions[2]
          [] OTHER -> Every(conditions)

evaluateSimpleLogic(conditions, op) ==
    LET logic == IF op = Undefined THEN "AND" ELSE op
    IN  CASE logic = "AND" -> Every(conditions)
          [] logic = "OR" -> Some(conditions)
          [] logic = "NOT" -> Every([i \in 1..Len(conditions) |-> ~conditions[i]])
          [] logic = "XOR" -> Len(SelectSeq(conditions, IsTrue)) = 1
          [] logic = "IMPLIES" ->
                IF Len(conditions) < 2 THEN TRUE ELSE ~conditions[1] \/ conditions[2]
          [] OTHER -> Every(conditions)

ConditionLists == UNION {[1..n -> BOOLEAN] : n \in 0..MaxConds}

\* an ArtoLogicObject; a field that is omitted is Undefined
LogicObject(variants, states, combine) ==
    [variants |-> variants, states |-> states, combine |-> combine]

\* `const { variants = 'AND', ... } = logicObj`
OrAnd(field) == IF field = Undefined THEN "AND" ELSE field

\* evaluateObjectLogic with the two lists reduced together by one operator
evaluateObjectLogicJoined(variantBooleans, stateBooleans, logicObj) ==
    LET variants == OrAnd(logicObj.variants)
        all == variantBooleans \o stateBooleans
    IN  IF variants = "AND" THEN Every(all) ELSE Some(all)

evaluateObjectLogic(variantBooleans, stateBooleans, logicObj) ==
    LET variants == OrAnd(logicObj.variants)
        states == OrAnd(logicObj.states)
        combine == OrAnd(logicObj.combine)
        variantsPassed ==
            IF variants = "AND" THEN Every(variantBooleans) ELSE Some(variantBooleans)
        statesPassed ==
            IF states = "AND" THEN Every(stateBooleans) ELSE Some(stateBooleans)
    IN  IF combine = "AND" THEN variantsPassed /\ statesPassed
        ELSE variantsPassed \/ statesPassed

ObjectOperators == {"AND", "OR"}

LogicObjects ==
    {LogicObject(v, st, c) : v \in ObjectOperators \cup {Undefined},
                             st \in ObjectOperators \cup {Undefined},
                             c \in ObjectOperators \cup {Undefined}}

(***************************************************************************)
(* JS objects with string keys: a sequence of <<key, value>> pairs in      *)
(* insertion order, which is the order `for...in`, Object.keys and         *)
(* Object.entries follow.  A JS Set is a duplicate-free sequence.          *)
(***************************************************************************)
ObjKeys(o) == [i \in 1..Len(o) |-> o[i][1]]

ObjValues(o) == [i \in 1..Len(o) |-> o[i][2]]

ObjHas(o, key) == \E i \in 1..Len(o) : o[i][1] = key

ObjGet(o, key) == o[CHOOSE i \in 1..Len(o) : o[i][1] = key][2]

ObjGetOr(o, key, default) == IF ObjHas(o, key) THEN ObjGet(o, key) ELSE default

\* o[key] = value: an existing key keeps its place, a new key goes last
ObjPut(o, key, value) ==
    IF ObjHas(o, key)
    THEN [i \in 1..Len(o) |-> IF o[i][1] = key THEN <<key, value>> ELSE o[i]]
    ELSE Append(o, <<key, value>>)

\* a configuration section that is present
Obj(pairs) == [k |-> "obj", v |-> pairs]

\* an explicit null among the caller's variant values
NullValue == "<null>"

(***************************************************************************)
(* ClassNameBuilder (classname-builder.ts): the bucket operations.  b is   *)
(* the builder object, a record of its private fields.                     *)
(***************************************************************************)
addBaseClasses(b, classNames) == [b EXCEPT !.baseClassNames = @ \o classNames]

clearBaseClasses(b) == [b EXCEPT !.baseClassNames = <<>>]

addVariantClasses(b, variantKey, classNames) ==
    [b EXCEPT !.variantClassNames =
        ObjPut(@, variantKey, ObjGetOr(@, variantKey, <<>>) \o classNames)]

replaceVariantClasses(b, variantKey, classNames) ==
    [b EXCEPT !.variantClassNames = ObjPut(@, variantKey, classNames)]

clearVariantClasses(b, variantKey) ==
    [b EXCEPT !.variantClassNames = ObjPut(@, variantKey, <<>>)]

addGlobalStateClasses(b, state, classNames) ==
    [b EXCEPT !.globalStateClassNames =
        ObjPut(@, state, ObjGetOr(@, state, <<>>) \o classNames)]

replaceGlobalStateClasses(b, state, classNames) ==
    [b EXCEPT !.globalStateClassNames = ObjPut(@, state, classNames)]

clearGlobalStateClasses(b, state) ==
    [b EXCEPT !.globalStateClassNames = ObjPut(@, state, <<>>)]

addVariantStateClasses(b, variantKey, state, classNames) ==
    LET stateMap == ObjGetOr(b.variantStateClassNames, variantKey, <<>>)
    IN  [b EXCEPT !.variantStateClassNames =
            ObjPut(@, variantKey,
                   ObjPut(stateMap, state, ObjGetOr(stateMap, state, <<>>) \o classNames))]

\* replaceVariantStateClasses keeping what the bucket holds
replaceVariantStateClassesAppending(b, variantKey, state, classNames) ==
    LET stateMap == ObjGetOr(b.variantStateClassNames, variantKey, <<>>)
    IN  [b EXCEPT !.variantStateClassNames =
            ObjPut(@, variantKey,
                   ObjPut(stateMap, state, ObjGetOr(stateMap, state, <<>>) \o classNames))]

replaceVariantStateClasses(b, variantKey, state, classNames) ==
    LET stateMap == ObjGetOr(b.variantStateClassNames, variantKey, <<>>)
    IN  [b EXCEPT !.variantStateClassNames =
            ObjPut(@, variantKey, ObjPut(stateMap, state, classNames))]

\* clearVariantStateClasses emptying the variant's whole state map
clearVariantStateClassesAllStates(b, variantKey, state) ==
    IF ObjHas(b.variantStateClassNames, variantKey)
    THEN [b EXCEPT !.variantStateClassNames = ObjPut(@, variantKey, <<>>)]
    ELSE b

clearVariantStateClasses(b, variantKey, state) ==
    IF ObjHas(b.variantStateClassNames, variantKey)
    THEN [b EXCEPT !.variantStateClassNames =
            ObjPut(@, variantKey, ObjPut(ObjGet(@, variantKey), state, <<>>))]
    ELSE b

\* A JS array handed to a caller: its elements, and whether it is the very
\* array object a bucket holds (a write through it then writes the bucket)
NewArray(items) == [items |-> items, isBucket |-> FALSE]

SameArray(items) == [items |-> items, isBucket |-> TRUE]

\* return [...this.baseClassNames]
getBaseClasses(b) == NewArray(b.baseClassNames)

\* getVariantClassMap as a shallow copy: { ...this.variantClassNames }
getVariantClassMapShallow(b) ==
    [i \in 1..Len(b.variantClassNames) |->
        <<b.variantClassNames[i][1], SameArray(b.variantClassNames[i][2])>>]

\* clone[key] = [...(this.variantClassNames[key] ?? [])] for each key
getVariantClassMap(b) ==
    [i \in 1..Len(b.variantClassNames) |->
        <<b.variantClassNames[i][1], NewArray(b.variantClassNames[i][2])>>]

\* return [...(this.globalStateClassNames[state] ?? [])]
getGlobalStateClassesFor(b, state) ==
    NewArray(ObjGetOr(b.globalStateClassNames, state, <<>>))

\* the bucket of (variantKey, state), <<>> when there is none (or an empty one)
VariantStateBucket(b, variantKey, state) ==
    ObjGetOr(ObjGetOr(b.variantStateClassNames, variantKey, <<>>), state, <<>>)

\* this.variantStateClassNames[variantKey]?.[state] ? [...that] : []
getVariantStateClasses(b, variantKey, state) ==
    NewArray(VariantStateBucket(b, variantKey, state))

\* getAllClasses reading the (variant, state) buckets of every state
getAllClassesEveryState(b) ==
    b.baseClassNames
        \o Flatten(ObjValues(b.variantClassNames))
        \o Flatten([j \in 1..Len(b.activeStates) |->
                       getGlobalStateClassesFor(b, b.activeStates[j]).items])
        \o Flatten([i \in 1..Len(b.selectedVariants) |->
               Flatten(ObjValues(ObjGetOr(b.variantStateClassNames,
                                          b.selectedVariants[i][1], <<>>)))])

\* base, variants, the global buckets of the active states, then the
\* (variant, state) buckets of the selected keys and active states
getAllClasses(b) ==
    b.baseClassNames
        \o Flatten(ObjValues(b.variantClassNames))
        \o Flatten([j \in 1..Len(b.activeStates) |->
                       getGlobalStateClassesFor(b, b.activeStates[j]).items])
        \o Flatten([i \in 1..Len(b.selectedVariants) |->
               Flatten([j \in 1..Len(b.activeStates) |->
                          getVariantStateClasses(b, b.selectedVariants[i][1],
                                                 b.activeStates[j]).items])])

setSelectedVariants(b, variants) == [b EXCEPT !.selectedVariants = variants]

setActiveStates(b, states) == [b EXCEPT !.activeStates = states]

\* addPostCoreCallback with unshift in place of push
addPostCoreCallbackFirst(b, callback) ==
    [b EXCEPT !.postCoreCallbacks = <<callback>> \o @]

addPostCoreCallback(b, callback) == [b EXCEPT !.postCoreCallbacks = Append(@, callback)]

addFinalBuildCallback(b, callback) == [b EXCEPT !.finalBuildCallbacks = Append(@, callback)]

\* build(), "Variant-level states": for each variant key of the map, the
\* buckets of the active states, in the order of the active-state set
\* VariantStatePart with the buckets of every state, active or not
VariantStatePartAllStates(b) ==
    Flatten([i \in 1..Len(b.variantStateClassNames) |->
        Flatten(ObjValues(b.variantStateClassNames[i][2]))])

VariantStatePart(b) ==
    Flatten([i \in 1..Len(b.variantStateClassNames) |->
        LET stateMap == b.variantStateClassNames[i][2]
        IN  Flatten([j \in 1..Len(b.activeStates) |->
                ObjGetOr(stateMap, b.activeStates[j], <<>>)])])

\* BuildFinalList with the list passed through a Set
BuildFinalListDeduped(b) ==
    SetAddAll(<<>>, b.baseClassNames
                      \o Flatten(ObjValues(b.variantClassNames))
                      \o VariantStatePart(b)
                      \o Flatten(ObjValues(b.globalStateClassNames)))

\* BuildFinalList with the global-state buckets pushed before the
\* variant-level state buckets
BuildFinalListStatesSwapped(b) ==
    b.baseClassNames
        \o Flatten(ObjValues(b.variantClassNames))
        \o Flatten(ObjValues(b.globalStateClassNames))
        \o VariantStatePart(b)

\* build(), "Collect all classes in a final list"
BuildFinalList(b) ==
    b.baseClassNames
        \o Flatten(ObjValues(b.variantClassNames))
        \o VariantStatePart(b)
        \o Flatten(ObjValues(b.globalStateClassNames))

(***************************************************************************)
(* The constructor of ClassNameBuilder: plugin defaults and the sort.  A   *)
(* plugin's order is <<>> when omitted and <<n>> when it is the number n.  *)
(***************************************************************************)
stagePriority(stage) ==
    CASE stage = "before" -> 0
      [] stage = "core" -> 1
      [] stage = "after" -> 2

\* the loop "Ensure each plugin has a default stage ('core') and an integer order"
WithDefaults(p) ==
    [p EXCEPT !.stage = IF @ = Undefined THEN "core" ELSE @,
              !.order = IF @ = <<>> THEN <<0>> ELSE @]

\* ComparePlugins looking at the stage alone
ComparePluginsStageOnly(a, b) == stagePriority(a.stage) - stagePriority(b.stage)

\* the comparator handed to rawPlugins.sort
ComparePlugins(a, b) ==
    LET stageDiff == stagePriority(a.stage) - stagePriority(b.stage)
    IN  IF stageDiff # 0 THEN stageDiff ELSE a.order[1] - b.order[1]

RECURSIVE InsertSortedTiesFirst(_, _)
\* InsertSorted putting p in front of the elements it ties with
InsertSortedTiesFirst(sorted, p) ==
    IF sorted = <<>> THEN <<p>>
    ELSE LET last == sorted[Len(sorted)]
         IN  IF ComparePlugins(last, p) < 0 THEN Append(sorted, p)
             ELSE Append(InsertSortedTiesFirst(SubSeq(sorted, 1, Len(sorted) - 1), p), last)

RECURSIVE InsertSorted(_, _)
\* p put behind every element it does not precede (a stable insertion)
InsertSorted(sorted, p) ==
    IF sorted = <<>> THEN <<p>>
    ELSE LET last == sorted[Len(sorted)]
         IN  IF ComparePlugins(last, p) <= 0 THEN Append(sorted, p)
             ELSE Append(InsertSorted(SubSeq(sorted, 1, Len(sorted) - 1), p), last)

RECURSIVE SortPlugins(_)
\* Array.prototype.sort is stable: equal elements keep their order
SortPlugins(ps) ==
    IF ps = <<>> THEN <<>>
    ELSE InsertSorted(SortPlugins(SubSeq(ps, 1, Len(ps) - 1)), ps[Len(ps)])

\* new ClassNameBuilder(artoConfig, selectedVariants, activeStates, context, plugins)
NewBuilder(artoConfig, selectedVariants, activeStates, plugins) ==
    [artoConfig |-> artoConfig,
     selectedVariants |-> selectedVariants,
     activeStates |-> activeStates,
     context |-> "context",
     baseClassNames |-> <<>>,
     variantClassNames |-> <<>>,
     variantStateClassNames |-> <<>>,
     globalStateClassNames |-> <<>>,
     postCoreCallbacks |-> <<>>,
     finalBuildCallbacks |-> <<>>,
     allPlugins |-> SortPlugins([i \in 1..Len(plugins) |-> WithDefaults(plugins[i])])]

(***************************************************************************)
(* Configuration values (types/variants.ts, types/states.ts) and the       *)
(* type guards of the plugins.                                             *)
(***************************************************************************)
\* { className?, states? } under a variant value; Null where a key is absent
VariantConfig(className, states) == [k |-> "variantConfig", v |-> <<className, states>>]

\* { className, dependsOn? }; dependsOn is Null or DependsOn(<<entries>>)
StateConfig(className, dependsOn) == [k |-> "stateConfig", v |-> <<className, dependsOn>>]

DependsOn(entries) == [k |-> "deps", v |-> entries]

\* a dependency entry naming a state that must be active
Req(state) == [k |-> "req", v |-> <<state>>]

\* a dependency entry { not: [...] }
Not(states) == [k |-> "not", v |-> states]

isClassNameType(x) == x.k \in {"str", "arr", "fn"}

isVariantConfig(x) == x.k = "variantConfig"

\* an object with a className key; in state position these are the StateConfig
\* objects
isStateConfig(x) == x.k = "stateConfig"

\* checkStateDependencies looking at the required states alone
checkStateDependenciesRequiredOnly(dependsOn, activeStates) ==
    IF ~Truthy(dependsOn) THEN TRUE
    ELSE \A i \in 1..Len(dependsOn.v) :
            dependsOn.v[i].k = "req" => dependsOn.v[i].v[1] \in Range(activeStates)

checkStateDependencies(dependsOn, activeStates) ==
    IF ~Truthy(dependsOn) THEN TRUE
    ELSE \A i \in 1..Len(dependsOn.v) :
            LET dependency == dependsOn.v[i]
            IN  IF dependency.k = "req"
                THEN dependency.v[1] \in Range(activeStates)
                ELSE ~(\E j \in 1..Len(dependency.v) : dependency.v[j] \in Range(activeStates))

(***************************************************************************)
(* The built-in plugins.  An apply returns the builder as it left it and   *)
(* the error it threw (NoError when it returned).                          *)
(***************************************************************************)
Ok(b) == [b |-> b, err |-> NoError]

Fail(b, err) == [b |-> b, err |-> err]

\* BaseClassNamePlugin.apply
BaseClassNamePluginApply(b, cbs) ==
    IF Truthy(b.artoConfig.className)
    THEN LET baseClassList == normalizeClassName(b.artoConfig.className, cbs)
         IN  IF baseClassList.ok THEN Ok(addBaseClasses(b, baseClassList.value))
             ELSE Fail(b, baseClassList.error)
    ELSE Ok(b)

RECURSIVE MergeVariantStatesFrom(_, _, _, _, _)
\* VariantsPlugin.mergeVariantStates, from the i-th entry of statesObj on
MergeVariantStatesFrom(b, variantKey, statesObj, i, cbs) ==
    IF i > Len(statesObj) THEN Ok(b)
    ELSE LET stateName == statesObj[i][1]
             stateInput == statesObj[i][2]
         IN  IF ~Truthy(stateInput)
             THEN MergeVariantStatesFrom(b, variantKey, statesObj, i + 1, cbs)
             ELSE IF isClassNameType(stateInput)
             THEN LET classList == normalizeClassName(stateInput, cbs)
                  IN  IF classList.ok
                      THEN MergeVariantStatesFrom(
                               addVariantStateClasses(b, variantKey, stateName, classList.value),
                               variantKey, statesObj, i + 1, cbs)
                      ELSE Fail(b, classList.error)
             ELSE IF isStateConfig(stateInput)
             THEN IF ~checkStateDependencies(stateInput.v[2], b.activeStates)
                  THEN MergeVariantStatesFrom(b, variantKey, statesObj, i + 1, cbs)
                  ELSE LET newClassList == normalizeClassName(stateInput.v[1], cbs)
                       IN  IF newClassList.ok
                           THEN MergeVariantStatesFrom(
                                    replaceVariantStateClasses(b, variantKey, stateName,
                                                               newClassList.value),
                                    variantKey, statesObj, i + 1, cbs)
                           ELSE Fail(b, newClassList.error)
             ELSE Fail(b, ArtoError("Invalid state config for state '" \o stateName \o "' ..."))

\* VariantsPlugin.processVariantConfig: the builder, the error and the class
\* list to add to the variant's bucket
processVariantConfig(b, variantKey, variantConfig, cbs) ==
    IF isClassNameType(variantConfig)
    THEN LET n == normalizeClassName(variantConfig, cbs)
         IN  [b |-> b, err |-> n.error, classes |-> n.value]
    ELSE IF isVariantConfig(variantConfig)
    THEN LET n == IF Truthy(variantConfig.v[1])
                  THEN normalizeClassName(variantConfig.v[1], cbs)
                  ELSE [ok |-> TRUE, value |-> <<>>, error |-> NoError]
         IN  IF ~n.ok THEN [b |-> b, err |-> n.error, classes |-> <<>>]
             ELSE IF Truthy(variantConfig.v[2])
             THEN LET m == MergeVariantStatesFrom(b, variantKey, variantConfig.v[2].v, 1, cbs)
                  IN  [b |-> m.b, err |-> m.err, classes |-> n.value]
             ELSE [b |-> b, err |-> NoError, classes |-> n.value]
    ELSE [b |-> b, err |-> ArtoError("Invalid variant configuration item encountered."),
          classes |-> <<>>]

\* what an object literal inherits from Object.prototype; of these the model
\* keeps `constructor`, the function Object
ObjectPrototype == << <<"constructor", Fn("Object")>> >>

\* o[key]: the own property, else the inherited one, else undefined
Lookup(o, key) ==
    IF ObjHas(o, key) THEN ObjGet(o, key)
    ELSE IF ObjHas(ObjectPrototype, key) THEN ObjGet(ObjectPrototype, key)
    ELSE Null

RECURSIVE VariantsPluginFrom(_, _, _)
\* the loop of VariantsPlugin.apply, from the i-th key of artoConfig.variants on
VariantsPluginFrom(b, i, cbs) ==
    LET variants == b.artoConfig.variants.v
    IN  IF i > Len(variants) THEN Ok(b)
        ELSE LET variantKey == variants[i][1]
                 variantOptions == variants[i][2]
                 userChosenValue == ObjGetOr(b.selectedVariants, variantKey, NullValue)
             IN  IF userChosenValue = NullValue THEN VariantsPluginFrom(b, i + 1, cbs)
                 ELSE IF ~Truthy(variantOptions) THEN VariantsPluginFrom(b, i + 1, cbs)
                 ELSE IF ~Truthy(Lookup(variantOptions.v, userChosenValue))
                 THEN Fail(b, ArtoError("Invalid value '" \o userChosenValue
                                          \o "' for variant '" \o variantKey \o "'."))
                 ELSE LET r == processVariantConfig(
                                  b, variantKey, Lookup(variantOptions.v, userChosenValue), cbs)
                      IN  IF r.err # NoError THEN Fail(r.b, r.err)
                          ELSE VariantsPluginFrom(
                                   addVariantClasses(r.b, variantKey, r.classes), i + 1, cbs)

\* VariantsPlugin.apply
VariantsPluginApply(b, cbs) ==
    IF ~Truthy(b.artoConfig.variants) THEN Ok(b) ELSE VariantsPluginFrom(b, 1, cbs)

RECURSIVE StatesPluginFrom(_, _, _, _)
\* the loop of StatesPlugin.apply, from the i-th active state on
StatesPluginFrom(b, stateConfigs, i, cbs) ==
    IF i > Len(b.activeStates) THEN Ok(b)
    ELSE LET state == b.activeStates[i]
             stateConfig == ObjGetOr(stateConfigs, state, Null)
         IN  IF ~Truthy(stateConfig) THEN StatesPluginFrom(b, stateConfigs, i + 1, cbs)
             ELSE IF isStateConfig(stateConfig)
                     /\ ~checkStateDependencies(stateConfig.v[2], b.activeStates)
             THEN StatesPluginFrom(b, stateConfigs, i + 1, cbs)
             ELSE IF ~isStateConfig(stateConfig) /\ ~isClassNameType(stateConfig)
             THEN Fail(b, ArtoError(
                     "Invalid configuration for className. Expected ClassName or StateConfig."))
             ELSE LET newClassNames ==
                          normalizeClassName(
                              IF isStateConfig(stateConfig) THEN stateConfig.v[1]
                              ELSE stateConfig, cbs)
                  IN  IF newClassNames.ok
                      THEN StatesPluginFrom(
                               addGlobalStateClasses(b, state, newClassNames.value),
                               stateConfigs, i + 1, cbs)
                      ELSE Fail(b, newClassNames.error)

\* StatesPlugin.apply; the plugin was constructed with config.states
StatesPluginApply(b, cbs) == StatesPluginFrom(b, b.artoConfig.states.v, 1, cbs)

(***************************************************************************)
(* RulesPlugin (rules-plugin.ts).  In a rule, an omitted list (when.states,*)
(* remove.variants, remove.states) is the empty list and an omitted        *)
(* when.variants is the empty object: the code does nothing for either.    *)
(***************************************************************************)
\* when.logic: omitted, an operator, a logic object, or a callback that
\* returns `result` for the call
NoLogic == [k |-> "none", v |-> <<>>]
LogicOp(operator) == [k |-> "op", v |-> operator]
LogicObj(logicObject) == [k |-> "logicObj", v |-> logicObject]
LogicFn(result) == [k |-> "logicFn", v |-> result]

\* variants: <<key, accepted values>> pairs, the accepted values a list or
\* Undefined
When(variants, states, logic) == [variants |-> variants, states |-> states, logic |-> logic]

Remove(variants, states, statesScope, base) ==
    [k |-> "remove",
     v |-> [variants |-> variants, states |-> states, statesScope |-> statesScope,
            base |-> base]]

\* remove is Null or a Remove, add is Null or a class expression
Rule(when, remove, add) == [when |-> when, remove |-> remove, add |-> add]

RECURSIVE VariantMatchesFrom(_, _, _, _)
\* doesRuleApply, step 1: the loop over Object.keys(when.variants)
VariantMatchesFrom(whenVariants, selectedVariants, i, variantMatches) ==
    IF i > Len(whenVariants) THEN variantMatches
    ELSE LET vKey == whenVariants[i][1]
             acceptedValues == whenVariants[i][2]
             userValue == ObjGetOr(selectedVariants, vKey, NullValue)
         IN  IF acceptedValues = Undefined
             THEN VariantMatchesFrom(whenVariants, selectedVariants, i + 1, variantMatches)
             ELSE VariantMatchesFrom(whenVariants, selectedVariants, i + 1,
                     ObjPut(variantMatches, vKey,
                            userValue # NullValue /\ userValue \in Range(acceptedValues)))

RECURSIVE StateMatchesFrom(_, _, _, _)
\* doesRuleApply, step 2: the loop over when.states
StateMatchesFrom(whenStates, activeStates, i, stateMatches) ==
    IF i > Len(whenStates) THEN stateMatches
    ELSE StateMatchesFrom(whenStates, activeStates, i + 1,
            ObjPut(stateMatches, whenStates[i], whenStates[i] \in Range(activeStates)))

\* doesRuleApply with the state booleans put in front of the variant ones
doesRuleApplyStatesFirst(when, selectedVariants, activeStates) ==
    LET variantBools == ObjValues(VariantMatchesFrom(when.variants, selectedVariants, 1, <<>>))
        stateBools == ObjValues(StateMatchesFrom(when.states, activeStates, 1, <<>>))
        allBools == stateBools \o variantBools
    IN  CASE when.logic.k = "none" -> evaluateSimpleLogic(allBools, "AND")
          [] when.logic.k = "op" -> evaluateSimpleLogic(allBools, when.logic.v)
          [] when.logic.k = "logicObj" ->
                evaluateObjectLogic(variantBools, stateBools, when.logic.v)
          [] when.logic.k = "logicFn" -> when.logic.v

\* doesRuleApply with a rule without logic passing when some condition holds
doesRuleApplyAnyMatch(when, selectedVariants, activeStates) ==
    LET variantBools == ObjValues(VariantMatchesFrom(when.variants, selectedVariants, 1, <<>>))
        stateBools == ObjValues(StateMatchesFrom(when.states, activeStates, 1, <<>>))
        allBools == variantBools \o stateBools
    IN  CASE when.logic.k = "none" -> evaluateSimpleLogic(allBools, "OR")
          [] when.logic.k = "op" -> evaluateSimpleLogic(allBools, when.logic.v)
          [] when.logic.k = "logicObj" ->
                evaluateObjectLogic(variantBools, stateBools, when.logic.v)
          [] when.logic.k = "logicFn" -> when.logic.v

doesRuleApply(when, selectedVariants, activeStates) ==
    LET variantBools == ObjValues(VariantMatchesFrom(when.variants, selectedVariants, 1, <<>>))
        stateBools == ObjValues(StateMatchesFrom(when.states, activeStates, 1, <<>>))
        allBools == variantBools \o stateBools
    IN  CASE when.logic.k = "none" -> evaluateSimpleLogic(allBools, "AND")
          [] when.logic.k = "op" -> evaluateSimpleLogic(allBools, when.logic.v)
          [] when.logic.k = "logicObj" ->
                evaluateObjectLogic(variantBools, stateBools, when.logic.v)
          [] when.logic.k = "logicFn" -> when.logic.v

RECURSIVE ClearVariantsFromWithStates(_, _, _)
\* ClearVariantsFrom emptying the (variant, state) buckets of the key too
ClearVariantsFromWithStates(b, variantKeys, i) ==
    IF i > Len(variantKeys) THEN b
    ELSE ClearVariantsFromWithStates(
             [clearVariantClasses(b, variantKeys[i]) EXCEPT
                 !.variantStateClassNames =
                     IF ObjHas(@, variantKeys[i]) THEN ObjPut(@, variantKeys[i], <<>>) ELSE @],
             variantKeys, i + 1)

RECURSIVE ClearVariantsFrom(_, _, _)
\* removeStuff: `for (const vKey of remove.variants) builder.clearVariantClasses(vKey)`
ClearVariantsFrom(b, variantKeys, i) ==
    IF i > Len(variantKeys) THEN b
    ELSE ClearVariantsFrom(clearVariantClasses(b, variantKeys[i]), variantKeys, i + 1)

RECURSIVE ClearVariantStateFrom(_, _, _, _)
\* removeStuff: the loop over Object.entries(builder.getSelectedVariants())
ClearVariantStateFrom(b, selectedKeys, st, i) ==
    IF i > Len(selectedKeys) THEN b
    ELSE ClearVariantStateFrom(clearVariantStateClasses(b, selectedKeys[i], st),
                               selectedKeys, st, i + 1)

RECURSIVE ClearStatesFromAnyScope(_, _, _, _)
\* ClearStatesFrom taking every scope for 'all'
ClearStatesFromAnyScope(b, states, scope, i) ==
    IF i > Len(states) THEN b
    ELSE LET st == states[i]
             b1 == clearGlobalStateClasses(b, st)
             b2 == ClearVariantStateFrom(b1, ObjKeys(b1.selectedVariants), st, 1)
         IN  ClearStatesFromAnyScope(b2, states, scope, i + 1)

RECURSIVE ClearStatesFrom(_, _, _, _)
\* removeStuff: `for (const st of remove.states)`
ClearStatesFrom(b, states, scope, i) ==
    IF i > Len(states) THEN b
    ELSE LET st == states[i]
             b1 == IF scope \in {"all", "global"} THEN clearGlobalStateClasses(b, st) ELSE b
             b2 == IF scope \in {"all", "variant"}
                   THEN ClearVariantStateFrom(b1, ObjKeys(b1.selectedVariants), st, 1)
                   ELSE b1
         IN  ClearStatesFrom(b2, states, scope, i + 1)

removeStuff(b, remove) ==
    LET scope == IF remove.statesScope = Undefined THEN "all" ELSE remove.statesScope
        b1 == ClearVariantsFrom(b, remove.variants, 1)
        b2 == ClearStatesFrom(b1, remove.states, scope, 1)
    IN  IF remove.base THEN clearBaseClasses(b2) ELSE b2

\* ApplyRule adding the classes before it removes
ApplyRuleAddFirst(b, rule, cbs) ==
    IF Truthy(rule.add)
    THEN LET newClassNames == normalizeClassName(rule.add, cbs)
         IN  IF newClassNames.ok
             THEN LET b1 == addBaseClasses(b, newClassNames.value)
                  IN  Ok(IF Truthy(rule.remove) THEN removeStuff(b1, rule.remove.v) ELSE b1)
             ELSE Fail(b, newClassNames.error)
    ELSE Ok(IF Truthy(rule.remove) THEN removeStuff(b, rule.remove.v) ELSE b)

\* the body of the loop of RulesPlugin.apply for a rule that applies
ApplyRule(b, rule, cbs) ==
    LET b1 == IF Truthy(rule.remove) THEN removeStuff(b, rule.remove.v) ELSE b
    IN  IF Truthy(rule.add)
        THEN LET newClassNames == normalizeClassName(rule.add, cbs)
             IN  IF newClassNames.ok THEN Ok(addBaseClasses(b1, newClassNames.value))
                 ELSE Fail(b1, newClassNames.error)
        ELSE Ok(b1)

RECURSIVE RulesPluginFromLastFirst(_, _, _, _)
\* RulesPluginFrom walking the rules from the last one to the first
RulesPluginFromLastFirst(b, rules, i, cbs) ==
    IF i > Len(rules) THEN Ok(b)
    ELSE LET rule == rules[Len(rules) + 1 - i]
         IN  IF doesRuleApply(rule.when, b.selectedVariants, b.activeStates)
             THEN LET r == ApplyRule(b, rule, cbs)
                  IN  IF r.err # NoError THEN r
                      ELSE RulesPluginFromLastFirst(r.b, rules, i + 1, cbs)
             ELSE RulesPluginFromLastFirst(b, rules, i + 1, cbs)

RECURSIVE RulesPluginFrom(_, _, _, _)
\* RulesPlugin.apply, from the i-th rule on; selectedVariants and
\* activeStates are read once, before the loop
RulesPluginFrom(b, rules, i, cbs) ==
    IF i > Len(rules) THEN Ok(b)
    ELSE IF doesRuleApply(rules[i].when, b.selectedVariants, b.activeStates)
         THEN LET r == ApplyRule(b, rules[i], cbs)
              IN  IF r.err # NoError THEN r ELSE RulesPluginFrom(r.b, rules, i + 1, cbs)
         ELSE RulesPluginFrom(b, rules, i + 1, cbs)

RulesPluginApply(b, cbs) ==
    IF ~Truthy(b.artoConfig.rules) THEN Ok(b)
    ELSE RulesPluginFrom(b, b.artoConfig.rules.v, 1, cbs)

(***************************************************************************)
(* Plugins (plugin-interface.ts).  A custom plugin's apply is the list of  *)
(* builder calls it makes: `sync` up to its first suspension point (all of *)
(* them when it is not asynchronous), `deferred` after it.                 *)
(***************************************************************************)
Plugin(id, stage, order, kind, sync, deferred) ==
    [id |-> id, stage |-> stage, order |-> order, kind |-> kind,
     sync |-> sync, deferred |-> deferred]

\* a call of a builder method
Call(method, key, state, classNames) ==
    [method |-> method, key |-> key, state |-> state, classNames |-> classNames]

ApplyCall(b, c) ==
    CASE c.method = "addBaseClasses" -> addBaseClasses(b, c.classNames)
      [] c.method = "clearBaseClasses" -> clearBaseClasses(b)
      [] c.method = "addVariantClasses" -> addVariantClasses(b, c.key, c.classNames)
      [] c.method = "replaceVariantClasses" -> replaceVariantClasses(b, c.key, c.classNames)
      [] c.method = "clearVariantClasses" -> clearVariantClasses(b, c.key)
      [] c.method = "addGlobalStateClasses" -> addGlobalStateClasses(b, c.state, c.classNames)
      [] c.method = "replaceGlobalStateClasses" ->
            replaceGlobalStateClasses(b, c.state, c.classNames)
      [] c.method = "clearGlobalStateClasses" -> clearGlobalStateClasses(b, c.state)
      [] c.method = "addVariantStateClasses" ->
            addVariantStateClasses(b, c.key, c.state, c.classNames)
      [] c.method = "replaceVariantStateClasses" ->
            replaceVariantStateClasses(b, c.key, c.state, c.classNames)
      [] c.method = "clearVariantStateClasses" -> clearVariantStateClasses(b, c.key, c.state)
      \* the new set travels in classNames
      [] c.method = "setActiveStates" -> setActiveStates(b, c.classNames)
      \* the callback travels in key
      [] c.method = "addPostCoreCallback" -> addPostCoreCallback(b, c.key)
      [] c.method = "addFinalBuildCallback" -> addFinalBuildCallback(b, c.key)

RECURSIVE ApplyCalls(_, _)
ApplyCalls(b, calls) ==
    IF calls = <<>> THEN b ELSE ApplyCalls(ApplyCall(b, Head(calls)), Tail(calls))

\* `throw new Error(message)` in a custom plugin or callback; the message
\* travels in key
PlainError(message) == [name |-> "Error", message |-> message]

\* the position of the first throw among the calls, 0 when there is none
ThrowAt(calls) ==
    IF \E i \in 1..Len(calls) : calls[i].method = "throw"
    THEN CHOOSE i \in 1..Len(calls) :
            /\ calls[i].method = "throw"
            /\ \A j \in 1..(i - 1) : calls[j].method # "throw"
    ELSE 0

\* RunCalls inside try { ... } catch {}
RunCallsCaught(b, calls) ==
    LET t == ThrowAt(calls)
    IN  IF t = 0 THEN Ok(ApplyCalls(b, calls)) ELSE Ok(ApplyCalls(b, SubSeq(calls, 1, t - 1)))

\* the body of a synchronous function: its calls in order, up to a throw
RunCalls(b, calls) ==
    LET t == ThrowAt(calls)
    IN  IF t = 0 THEN Ok(ApplyCalls(b, calls))
        ELSE Fail(ApplyCalls(b, SubSeq(calls, 1, t - 1)), PlainError(calls[t].key))

\* plugin.apply(this), up to the point where it returns (or returns its
\* pending Promise)
PluginApply(b, p, cbs) ==
    CASE p.kind = "base" -> BaseClassNamePluginApply(b, cbs)
      [] p.kind = "variants" -> VariantsPluginApply(b, cbs)
      [] p.kind = "states" -> StatesPluginApply(b, cbs)
      [] p.kind = "rules" -> RulesPluginApply(b, cbs)
      [] OTHER -> RunCalls(b, p.sync)

(***************************************************************************)
(* PluginRegistry (plugin-interface.ts).  The registry is its `plugins`    *)
(* array; an operation returns the array it leaves, whether it threw, and  *)
(* whether it announced a replacement on the console.                      *)
(***************************************************************************)
\* the position of the first plugin with this id, 0 when there is none
findIndex(hub, id) ==
    IF \E i \in 1..Len(hub) : hub[i].id = id
    THEN CHOOSE i \in 1..Len(hub) : hub[i].id = id /\ \A j \in 1..(i - 1) : hub[j].id # id
    ELSE 0

unregister(hub, id) ==
    LET index == findIndex(hub, id)
    IN  IF index # 0 THEN SubSeq(hub, 1, index - 1) \o SubSeq(hub, index + 1, Len(hub))
        ELSE hub

\* register pushing the plugin without looking for its id
registerNoReplace(hub, plugin, production) ==
    IF plugin.id = "" /\ ~production
    THEN [plugins |-> hub, threw |-> TRUE, replaced |-> FALSE]
    ELSE [plugins |-> Append(hub, plugin), threw |-> FALSE, replaced |-> FALSE]

register(hub, plugin, production) ==
    IF plugin.id = "" /\ ~production
    THEN [plugins |-> hub, threw |-> TRUE, replaced |-> FALSE]
    ELSE LET existingIndex == findIndex(hub, plugin.id)
         IN  IF existingIndex # 0
             THEN [plugins |-> Append(unregister(hub, plugin.id), plugin),
                   threw |-> FALSE, replaced |-> TRUE]
             ELSE [plugins |-> Append(hub, plugin), threw |-> FALSE, replaced |-> FALSE]

RECURSIVE registerBatch(_, _, _)
\* `for (const plugin of plugins) this.register(plugin)`: the first throw
\* ends the loop
registerBatch(hub, list, production) ==
    IF list = <<>> THEN [plugins |-> hub, threw |-> FALSE, replaced |-> FALSE]
    ELSE LET r == register(hub, Head(list), production)
         IN  IF r.threw THEN r
             ELSE LET rest == registerBatch(r.plugins, Tail(list), production)
                  IN  [rest EXCEPT !.replaced = @ \/ r.replaced]

getPlugins(hub) == hub

IsStage(plugin, stage) == plugin.stage = stage

getByStage(hub, stage) == SelectSeq(hub, LAMBDA plugin : IsStage(plugin, stage))

clear(hub) == <<>>

\* the built-in plugins as the resolver constructs them
BaseClassNamePlugin ==
    Plugin("arto/Internal/AddBaseClassesPlugin", "core", <<0>>, "base", <<>>, <<>>)

VariantsPlugin ==
    Plugin("arto/Internal/ApplyVariantClassesPlugin", "core", <<0>>, "variants", <<>>, <<>>)

StatesPlugin ==
    Plugin("arto/Internal/ApplyStateClassesPlugin", "core", <<0>>, "states", <<>>, <<>>)

\* RulesPlugin declared with stage 'before'
RulesPluginBefore(order) ==
    Plugin("arto/Internal/RulesPlugin", "before", <<order>>, "rules", <<>>, <<>>)

\* new RulesPlugin(order)
RulesPlugin(order) ==
    Plugin("arto/Internal/RulesPlugin", "core", <<order>>, "rules", <<>>, <<>>)

(***************************************************************************)
(* The resolver returned by arto() (arto.ts), up to the construction of    *)
(* the builder.                                                            *)
(***************************************************************************)
RECURSIVE safeMergeDefaultsNullWins(_, _)
\* safeMergeDefaults writing every caller value, null included
safeMergeDefaultsNullWins(defaults, userVariants) ==
    IF userVariants = <<>> THEN defaults
    ELSE safeMergeDefaultsNullWins(
             ObjPut(defaults, Head(userVariants)[1], Head(userVariants)[2]),
             Tail(userVariants))

RECURSIVE safeMergeDefaults(_, _)
\* { ...defaults } with every non-null value of userVariants written over it
safeMergeDefaults(defaults, userVariants) ==
    IF userVariants = <<>> THEN defaults
    ELSE LET key == Head(userVariants)[1]
             value == Head(userVariants)[2]
         IN  safeMergeDefaults(
                 IF value # NullValue THEN ObjPut(defaults, key, value) ELSE defaults,
                 Tail(userVariants))

\* DefaultsAfterMerge with the merge writing into `defaults` itself
DefaultsAfterMergeInPlace(defaults, userVariants) ==
    safeMergeDefaults(defaults, userVariants)

\* the defaults object after safeMergeDefaults: `final` is a copy
\* ({ ...defaults }), the writes to it leave `defaults` as it was
DefaultsAfterMerge(defaults, userVariants) == defaults

IsTruePair(pair) == pair[2] = TRUE

\* the keys whose value is strictly true, as a Set
collectTrueKeys(record) == SetAddAll(<<>>, ObjKeys(SelectSeq(record, IsTruePair)))

\* "Conditionally add internal Arto plugins"
InternalPlugins(cfg) ==
    (IF Truthy(cfg.className) THEN <<BaseClassNamePlugin>> ELSE <<>>)
        \o (IF Truthy(cfg.variants) THEN <<VariantsPlugin>> ELSE <<>>)
        \o (IF Truthy(cfg.states) THEN <<StatesPlugin>> ELSE <<>>)
        \o (IF Truthy(cfg.rules) /\ Len(cfg.rules.v) > 0 THEN <<RulesPlugin(3)>> ELSE <<>>)

\* lines 94-137 of the resolver: the builder it constructs
ResolverBuilder(cfg, opts, localPlugins, globalPlugins) ==
    NewBuilder(cfg,
               safeMergeDefaults(IF Truthy(cfg.defaultVariants) THEN cfg.defaultVariants.v
                                 ELSE <<>>,
                                 opts.variants),
               collectTrueKeys(opts.states),
               localPlugins \o globalPlugins \o InternalPlugins(cfg))

(***************************************************************************)
(* The inputs of the normalizer's specification.                           *)
(***************************************************************************)
StrSet == UNION {[1..n -> Chars] : n \in 0..MaxStrLen}

Leaves == {Str(<<"a">>), Str(<<"b">>), Str(<<"b", " ", "a">>), Fn("f"), Fn("g"), Null, Num}

TokLeaves == {Str(<<"a">>), Fn("f")}

Arr1 == {Arr(<<>>)} \cup {Arr(<<x>>) : x \in Leaves}
            \cup {Arr(<<x, y>>) : x \in Leaves, y \in Leaves}

Level1 == Leaves \cup Arr1

Level2 == Level1
            \cup {Arr(<<x, y>>) : x \in Level1, y \in Leaves}
            \cup {Arr(<<x, y>>) : x \in Leaves, y \in Level1}
            \cup {Arr(<<x, y, z>>) : x \in TokLeaves, y \in Arr1, z \in TokLeaves}

\* expressions holding a plain object
ObjectInputs == {PlainObject}
                  \cup {Arr(<<x, PlainObject, y>>) : x \in TokLeaves, y \in TokLeaves}
                  \cup {Arr(<<PlainObject, Arr(<<Num, x>>)>>) : x \in TokLeaves}

NormInputs == {Str(s) : s \in StrSet} \cup Level2 \cup ObjectInputs

\* what a callback does when invoked
ResultsF == {Falsy, Str(<<>>), Throws(TRUE, "boom"), Throws(FALSE, "oops"),
             Str(<<"a", " ", "b">>), Fn("f"), Fn("g"),
             Arr(<<Str(<<"b">>), Fn("g"), Str(<<"a">>)>>),
             Arr(<<Fn("f")>>),
             Arr(<<Str(<<"a">>), Arr(<<Str(<<"b">>), Str(<<"a">>)>>)>>)}

ResultsG == {Falsy, Throws(TRUE, "boom"), Str(<<"b">>), Fn("f"),
             Arr(<<Fn("f"), Str(<<"a", "\t", "a">>)>>)}

CallbackTables == {[c \in Callbacks |-> IF c = "f" THEN rf ELSE rg] :
                      rf \in ResultsF, rg \in ResultsG}

(***************************************************************************)
(* The inputs of the resolution specification.                             *)
(***************************************************************************)
\* a configuration with rules; rules is Null or Arr(<<rule, ...>>)
ArtoConfigWithRules(className, variants, states, defaultVariants, rules) ==
    [className |-> className, variants |-> variants, states |-> states,
     defaultVariants |-> defaultVariants, rules |-> rules]

\* a configuration without rules
ArtoConfig(className, variants, states, defaultVariants) ==
    ArtoConfigWithRules(className, variants, states, defaultVariants, Null)

ConfigPool == <<
    \* {}
    ArtoConfig(Null, Null, Null, Null),
    \* { className: 'a b' }
    ArtoConfig(Str(<<"a", " ", "b">>), Null, Null, Null),
    \* base, two variants (one value with nested states, one with a callback),
    \* two global states (one with a dependency), a default for size
    ArtoConfig(
        Str(<<"a">>),
        Obj(<< <<"size", Obj(<<
                    <<"sm", Str(<<"s">>)>>,
                    <<"lg", VariantConfig(
                                Str(<<"a", " ", "l">>),
                                Obj(<< <<"hovered", Str(<<"h">>)>>,
                                       <<"disabled",
                                         StateConfig(Str(<<"e">>),
                                                     DependsOn(<<Req("hovered")>>))>> >>))>>
                >>)>>,
               <<"color", Obj(<< <<"red", Fn("f")>> >>)>> >>),
        Obj(<< <<"disabled", Str(<<"d">>)>>,
               <<"hovered",
                 StateConfig(Str(<<"o">>), DependsOn(<<Not(<<"disabled">>)>>))>> >>),
        Obj(<< <<"size", "sm">> >>)) >>

\* options.variants
VariantOptionsPool == <<
    <<>>,
    << <<"size", "lg">> >>,
    << <<"size", "xl">> >>,
    << <<"color", "red">>, <<"size", "lg">> >>,
    << <<"size", NullValue>> >> >>

\* options.states
StateOptionsPool == <<
    <<>>,
    << <<"hovered", TRUE>> >>,
    << <<"disabled", TRUE>>, <<"hovered", TRUE>> >>,
    << <<"hovered", FALSE>>, <<"disabled", TRUE>> >> >>

\* what the callbacks of the configuration return for the call's context
\* and Object(context), an object
ConfigCallbacks ==
    [c \in Callbacks \cup {"Object"} |->
        CASE c = "f" -> Str(<<"c">>)
          [] c = "Object" -> Num
          [] OTHER -> Falsy]

\* the deferred callbacks the custom plugins register, by name
CallbackBody(callback) ==
    CASE callback = "postCoreMark" -> <<Call("addBaseClasses", "", "", << <<"p">> >>)>>
      [] callback = "finalMark" -> <<Call("addBaseClasses", "", "", << <<"q">> >>)>>
      [] callback = "earlyMark" -> <<Call("addBaseClasses", "", "", << <<"early">> >>)>>
      [] callback = "lateMark" -> <<Call("addBaseClasses", "", "", << <<"late">> >>)>>
      [] callback = "neverMark" -> <<Call("addBaseClasses", "", "", << <<"never">> >>)>>
      \* a callback that registers a post-core callback
      [] callback = "registerLate" -> <<Call("addPostCoreCallback", "neverMark", "", <<>>)>>
      [] callback = "throwMark" -> <<Call("addBaseClasses", "", "", << <<"t">> >>),
                                     Call("throw", "boom", "", <<>>)>>

\* custom plugins
PluginPool == <<
    Plugin("before-global-state", "before", <<1>>, "custom",
           <<Call("addGlobalStateClasses", "", "disabled", << <<"g">> >>),
             Call("addBaseClasses", "", "", << <<"x">> >>)>>, <<>>),
    Plugin("core-default", Undefined, <<>>, "custom",
           <<Call("addVariantClasses", "size", "", << <<"v">> >>),
             Call("addPostCoreCallback", "postCoreMark", "", <<>>),
             Call("addFinalBuildCallback", "finalMark", "", <<>>)>>, <<>>),
    Plugin("core-set-states", "core", <<5>>, "custom",
           <<Call("setActiveStates", "", "", <<"hovered">>)>>, <<>>),
    Plugin("after-0", "after", <<0>>, "custom",
           <<Call("addVariantStateClasses", "size", "hovered", << <<"w">> >>),
             Call("addFinalBuildCallback", "finalMark", "", <<>>)>>, <<>>),
    \* async apply(builder) { builder.addBaseClasses(['y']); await ...;
    \*                        builder.addBaseClasses(['z']) }
    Plugin("before-async", "before", <<0>>, "custom",
           <<Call("addBaseClasses", "", "", << <<"y">> >>)>>,
           <<Call("addBaseClasses", "", "", << <<"z">> >>)>>) >>

\* a plugin registered in pluginHub
GlobalPlugin ==
    Plugin("global-after", "after", <<-1>>, "custom",
           <<Call("addGlobalStateClasses", "", "hovered", << <<"k">> >>)>>, <<>>)

\* the lists of local plugins: up to MaxPlugins different plugins of the pool
PluginChoices ==
    {ix \in UNION {[1..n -> 1..Len(PluginPool)] : n \in 0..MaxPlugins} :
        \A i, j \in 1..Len(ix) : i # j => ix[i] # ix[j]}

(***************************************************************************)
(* State.                                                                  *)
(***************************************************************************)
VARIABLES
    classInput,     \* normalizer: the expression of the current call
    callbackTable,  \* normalizer: what each callback returns or throws
    norm,           \* normalizer: stack, result, seenCallbacks, outcome
    pass,           \* normalizer: 1 for the call on the expression, 2 for
                    \*   the call on its own space-joined result
    firstResult,    \* normalizer: the list returned by pass 1
    conditions,     \* logic: the booleans handed to the evaluator
    op,             \* logic: the operator handed to the evaluator
    logicResult,    \* logic: what the evaluator returned
    logicPc,        \* logic: "call" before the evaluation, "returned" after
    stateConditions,\* logic: the state booleans handed to evaluateObjectLogic
    logicObj,       \* logic: the ArtoLogicObject handed to evaluateObjectLogic
    config,         \* resolution: the configuration handed to arto()
    options,        \* resolution: the options of the call (variants, states)
    plugins,        \* resolution: the local plugins handed to arto()
    pluginHub,      \* resolution: the plugins of the global registry
    builder,        \* resolution: the ClassNameBuilder of the call
    pc,             \* resolution: the statement of build() that runs next
    idx,            \* resolution: the position of the running loop
    finalList,      \* resolution: the list build() returned
    classString,    \* resolution: the string the resolver returned
    thrown,         \* resolution: the error the call threw
    pending,        \* resolution: asynchronous applies not yet completed
    settled,        \* resolution: the ids of the completed ones
    log,            \* resolution: what has run so far, in order
    registryOp,     \* registry: the last operation on pluginHub
    hubAtCreation,  \* registry: pluginHub when arto() returned the resolver
    production,     \* registry: NODE_ENV is 'production'
    held,           \* bucket reads: the array a getter returned last, if any
    previous        \* resolution: the earlier calls of the resolver, each
                    \*   with its outcome and its builder

normVars == <<classInput, callbackTable, norm, pass, firstResult>>

logicVars == <<conditions, op, logicResult, logicPc, stateConditions, logicObj>>

resolveVars == <<config, options, plugins, pluginHub, builder, pc, idx, finalList,
                 classString, thrown, pending, settled, log>>

hubVars == <<registryOp, hubAtCreation, production>>

copyVars == <<held>>

callVars == <<previous>>

vars == <<normVars, logicVars, resolveVars, hubVars, copyVars, callVars>>

\* the parts of the state a specification does not use stay as they are here
IdleNorm ==
    /\ classInput = Null
    /\ callbackTable = [c \in Callbacks |-> Falsy]
    /\ norm = NormReturnF(NormStart(Null))
    /\ pass = 0
    /\ firstResult = <<>>

IdleLogic ==
    /\ conditions = <<>>
    /\ op = Undefined
    /\ logicResult = FALSE
    /\ logicPc = "idle"
    /\ stateConditions = <<>>
    /\ logicObj = LogicObject(Undefined, Undefined, Undefined)

\* a plugin that is none of the pool, for an operation without a plugin
NoPlugin == Plugin("<none>", "core", <<0>>, "custom", <<>>, <<>>)

RegistryOp(name, plugin, id, list, threw, replaced) ==
    [name |-> name, plugin |-> plugin, id |-> id, list |-> list, threw |-> threw,
     replaced |-> replaced]

NoRegistryOp == RegistryOp("none", NoPlugin, "", <<>>, FALSE, FALSE)

IdleHub ==
    /\ registryOp = NoRegistryOp
    /\ hubAtCreation = <<>>
    /\ production = FALSE

IdleCopy == held = <<>>

IdleCalls == previous = <<>>

\* no builder yet, nothing run, nothing returned
IdleResolveState ==
    /\ builder = NewBuilder(ConfigPool[1], <<>>, <<>>, <<>>)
    /\ idx = 1
    /\ finalList = <<>>
    /\ classString = <<>>
    /\ thrown = NoError
    /\ pending = <<>>
    /\ settled = <<>>
    /\ log = <<>>

IdleResolve ==
    /\ config = ConfigPool[1]
    /\ options = [variants |-> <<>>, states |-> <<>>]
    /\ plugins = <<>>
    /\ pluginHub = <<>>
    /\ IdleResolveState
    /\ pc = "idle"
    /\ IdleHub
    /\ IdleCopy
    /\ IdleCalls

(***************************************************************************)
(* SpecNorm: one call of normalizeClassName, one loop iteration per step,  *)
(* then a second call on the space-joined result of the first.             *)
(***************************************************************************)
InitNorm ==
    /\ classInput \in NormInputs
    /\ callbackTable \in CallbackTables
    /\ norm = NormStart(classInput)
    /\ pass = 1
    /\ firstResult = <<>>
    /\ IdleLogic
    /\ IdleResolve

\* one iteration of `while (stack.length > 0)`
NormStep ==
    /\ norm.status = "run"
    /\ norm.stack # <<>>
    /\ norm' = NormStepF(norm, callbackTable)
    /\ UNCHANGED <<classInput, callbackTable, pass, firstResult>>
    /\ UNCHANGED <<logicVars, resolveVars, hubVars, copyVars, callVars>>

\* the loop ends: return Array.from(result)
NormReturn ==
    /\ norm.status = "run"
    /\ norm.stack = <<>>
    /\ norm' = NormReturnF(norm)
    /\ UNCHANGED <<classInput, callbackTable, pass, firstResult>>
    /\ UNCHANGED <<logicVars, resolveVars, hubVars, copyVars, callVars>>

\* normalizeClassName(result.join(' ')): the returned list re-fed as a string
NormRefeed ==
    /\ pass = 1
    /\ norm.status = "done"
    /\ classInput' = Str(JoinSpace(norm.returned))
    /\ norm' = NormStart(classInput')
    /\ pass' = 2
    /\ firstResult' = norm.returned
    /\ UNCHANGED callbackTable
    /\ UNCHANGED <<logicVars, resolveVars, hubVars, copyVars, callVars>>

NextNorm == NormStep \/ NormReturn \/ NormRefeed

SpecNorm == InitNorm /\ [][NextNorm]_vars

\* the loop is a plain sequential loop: an iteration that can run does run
FairSpecNorm == SpecNorm /\ WF_vars(NextNorm)

(***************************************************************************)
(* Claims about the normalizer.                                            *)
(***************************************************************************)
RECURSIVE Reading(_, _, _)
\* the tokens met in a left-to-right depth-first reading of e, duplicates
\* kept, the result of a callback read in its place; a callback met inside
\* its own result (path) is a cycle and reads as nothing
Reading(e, cbs, path) ==
    CASE e.k = "str" -> SplitWhitespace(e.v)
      [] e.k = "arr" -> Flatten([i \in 1..Len(e.v) |-> Reading(e.v[i], cbs, path)])
      [] e.k = "fn" ->
            IF e.v \in path \/ cbs[e.v].k = "throw" \/ ~Truthy(cbs[e.v]) THEN <<>>
            ELSE Reading(cbs[e.v], cbs, path \cup {e.v})
      [] OTHER -> <<>>

RECURSIVE FirstOccurrences(_)
\* each distinct element once, at the place of its first occurrence
FirstOccurrences(s) ==
    IF s = <<>> THEN <<>>
    ELSE LET init == FirstOccurrences(SubSeq(s, 1, Len(s) - 1))
             last == s[Len(s)]
         IN  IF last \in Range(init) THEN init ELSE Append(init, last)

\* C6: a call that returns gives each distinct whitespace-delimited token
\* exactly once, in the order of first occurrence in the left-to-right
\* depth-first reading of the expression (callback results read in place)
C6_FirstOccurrenceOrder ==
    (pass = 1 /\ norm.status = "done") =>
        norm.returned = FirstOccurrences(Reading(classInput, callbackTable, {}))

\* ['a', [f, 'b'], 'a'] with f returning ['b', g, 'a'] and g returning 'b'
\* has returned [a, b]
C6_Witness ==
    /\ pass = 1
    /\ norm.status = "done"
    /\ classInput = Arr(<<Str(<<"a">>), Arr(<<Fn("f"), Str(<<"b">>)>>), Str(<<"a">>)>>)
    /\ callbackTable["f"] = Arr(<<Str(<<"b">>), Fn("g"), Str(<<"a">>)>>)
    /\ callbackTable["g"] = Str(<<"b">>)
    /\ norm.returned = << <<"a">>, <<"b">> >>

\* C7: the call on the space-joined result of a call returns the same tokens
\* in the same order
C7_Idempotent ==
    (pass = 2 /\ norm.status = "done") => norm.returned = firstResult

\* the second call has returned, for a first result of several tokens
C7_Witness ==
    /\ pass = 2
    /\ norm.status = "done"
    /\ Len(firstResult) >= 2
    /\ norm.calls = <<>>

RECURSIVE SumSeq(_)
SumSeq(s) == IF s = <<>> THEN 0 ELSE Head(s) + SumSeq(Tail(s))

RECURSIVE ExprSize(_)
\* the number of nodes of an expression
ExprSize(e) ==
    IF e.k = "arr" THEN 1 + SumSeq([i \in 1..Len(e.v) |-> ExprSize(e.v[i])]) ELSE 1

\* the invocation of callback c and the nodes it may push
InvocationCost(c) ==
    1 + (IF callbackTable[c].k = "throw" THEN 0 ELSE ExprSize(callbackTable[c]))

RECURSIVE SumCost(_)
SumCost(cs) ==
    IF cs = {} THEN 0
    ELSE LET c == CHOOSE x \in cs : TRUE IN InvocationCost(c) + SumCost(cs \ {c})

\* what is left to do: the nodes on the stack, and the cost of every
\* callback not yet invoked
NormRank ==
    SumSeq([i \in 1..Len(norm.stack) |-> ExprSize(norm.stack[i])])
        + SumCost(Callbacks \ norm.seenCallbacks)

\* C8: every loop iteration strictly decreases a natural-number measure, so
\* every call ends (returns or raises), also when callbacks return
\* themselves or each other; and f returning f gives the empty list, with a
\* warning and without an error
C8_Terminates ==
    /\ [][(norm.status = "run" /\ norm.stack # <<>>) => NormRank' < NormRank]_vars
    /\ <>(norm.status = "error" \/ (pass = 2 /\ norm.status = "done"))
    /\ []((/\ pass = 1
           /\ classInput = Fn("f")
           /\ callbackTable["f"] = Fn("f")
           /\ norm.stack = <<>>)
          => (/\ norm.result = <<>>
              /\ norm.error = NoError
              /\ norm.status \in {"run", "done"}
              /\ norm.warnings = <<"cyclic">>))

\* f returns g and g returns [f, 'a a']: the call has returned
C8_Witness ==
    /\ pass = 1
    /\ norm.status = "done"
    /\ classInput = Fn("f")
    /\ callbackTable["f"] = Fn("g")
    /\ callbackTable["g"] = Arr(<<Fn("f"), Str(<<"a", "\t", "a">>)>>)
    /\ norm.warnings = <<"cyclic">>

\* C9: once an invoked callback has thrown, the call has raised an ArtoError
\* with the prefixed message and returns nothing, whatever was collected
C9_CallbackFailure ==
    \A i \in 1..Len(norm.calls) :
        callbackTable[norm.calls[i]].k = "throw" =>
            /\ i = Len(norm.calls)
            /\ norm.status = "error"
            /\ norm.returned = <<>>
            /\ norm.error.name = "ArtoError"
            /\ norm.error.message =
                  "[Arto Error]: Error resolving class function: "
                      \o callbackTable[norm.calls[i]].v[2]

\* a callback threw after tokens had been collected
C9_Witness ==
    /\ norm.status = "error"
    /\ norm.result # <<>>
    /\ norm.error.message = "[Arto Error]: Error resolving class function: boom"

(***************************************************************************)
(* SpecLogic: one call of the logic evaluator.                             *)
(***************************************************************************)
InitLogic ==
    /\ conditions \in ConditionLists
    /\ op \in LogicOperators \cup {Undefined}
    /\ logicResult = FALSE
    /\ logicPc = "call"
    /\ stateConditions = <<>>
    /\ logicObj = LogicObject(Undefined, Undefined, Undefined)
    /\ IdleNorm
    /\ IdleResolve

EvaluateSimple ==
    /\ logicPc = "call"
    /\ logicResult' = evaluateSimpleLogic(conditions, op)
    /\ logicPc' = "returned"
    /\ UNCHANGED <<conditions, op, stateConditions, logicObj>>
    /\ UNCHANGED <<normVars, resolveVars, hubVars, copyVars, callVars>>

NextLogic == EvaluateSimple

SpecLogic == InitLogic /\ [][NextLogic]_vars

(***************************************************************************)
(* Claims about the logic evaluator.                                       *)
(***************************************************************************)
\* the positions of the conditions that hold
TrueAt == {i \in 1..Len(conditions) : conditions[i]}

\* C10: AND (and an omitted operator): every entry holds; OR: some entry
\* holds; NOT: no entry holds; XOR: exactly one entry holds; IMPLIES: fewer
\* than two entries, or not the first, or the second (later ones ignored)
C10_SimpleLogic ==
    logicPc = "returned" =>
        logicResult =
            CASE op \in {"AND", Undefined} -> TrueAt = 1..Len(conditions)
              [] op = "OR" -> TrueAt # {}
              [] op = "NOT" -> TrueAt = {}
              [] op = "XOR" -> Cardinality(TrueAt) = 1
              [] op = "IMPLIES" -> Len(conditions) < 2 \/ 1 \notin TrueAt \/ 2 \in TrueAt

\* evaluateSimpleLogic([true, false, true], 'IMPLIES') has returned false
C10_Witness ==
    /\ logicPc = "returned"
    /\ op = "IMPLIES"
    /\ conditions = <<TRUE, FALSE, TRUE>>
    /\ logicResult = FALSE

(***************************************************************************)
(* SpecObjectLogic: one call of evaluateObjectLogic.                       *)
(***************************************************************************)
InitObjectLogic ==
    /\ conditions \in ConditionLists
    /\ stateConditions \in ConditionLists
    /\ logicObj \in LogicObjects
    /\ op = Undefined
    /\ logicResult = FALSE
    /\ logicPc = "call"
    /\ IdleNorm
    /\ IdleResolve

EvaluateObject ==
    /\ logicPc = "call"
    /\ logicResult' = evaluateObjectLogic(conditions, stateConditions, logicObj)
    /\ logicPc' = "returned"
    /\ UNCHANGED <<conditions, op, stateConditions, logicObj>>
    /\ UNCHANGED <<normVars, resolveVars, hubVars, copyVars, callVars>>

NextObjectLogic == EvaluateObject

SpecObjectLogic == InitObjectLogic /\ [][NextObjectLogic]_vars

\* the reduction of a list of booleans the claim states for an operator
Reduced(list, operator) ==
    IF operator \in {"AND", Undefined}
    THEN \A i \in 1..Len(list) : list[i] = TRUE
    ELSE \E i \in 1..Len(list) : list[i] = TRUE

\* C11: evaluateObjectLogic reduces the variant list with its operator and
\* the state list with its operator, each on its own (AND: all true, true
\* on the empty list; OR: some true, false on the empty list), and combines
\* the two results with `combine` (AND: both, OR: either); an omitted
\* operator is AND
C11_ObjectLogic ==
    logicPc = "returned" =>
        logicResult =
            IF logicObj.combine \in {"AND", Undefined}
            THEN Reduced(conditions, logicObj.variants)
                    /\ Reduced(stateConditions, logicObj.states)
            ELSE Reduced(conditions, logicObj.variants)
                    \/ Reduced(stateConditions, logicObj.states)

\* evaluateObjectLogic([], [true, false], { variants: 'OR', combine: 'OR' })
\* has returned false: OR of the empty list, the omitted operator read as AND
C11_Witness ==
    /\ logicPc = "returned"
    /\ conditions = <<>>
    /\ stateConditions = <<TRUE, FALSE>>
    /\ logicObj = LogicObject("OR", Undefined, "OR")
    /\ logicResult = FALSE

(***************************************************************************)
(* Spec: one call of the resolver returned by arto(config, plugins), and   *)
(* the completions of its asynchronous plugins.  pc is the statement of    *)
(* build() that runs next; idx is the position of its loop.                *)
(***************************************************************************)
Stages == {"before", "core", "after"}

InitResolve ==
    /\ \E i \in 1..Len(ConfigPool) : config = ConfigPool[i]
    /\ \E i \in 1..Len(VariantOptionsPool), j \in 1..Len(StateOptionsPool) :
          options = [variants |-> VariantOptionsPool[i], states |-> StateOptionsPool[j]]
    /\ \E ix \in PluginChoices : plugins = [i \in 1..Len(ix) |-> PluginPool[ix[i]]]
    /\ pluginHub \in {<<>>, <<GlobalPlugin>>}
    /\ IdleResolveState
    /\ pc = "call"
    /\ IdleHub
    /\ IdleCopy
    /\ IdleCalls
    /\ IdleNorm
    /\ IdleLogic

\* the constructor working on copies of the plugin objects
PluginObjectsAfterOnCopies(objects) == objects

\* the plugin objects after the constructor's loop `for (const p of
\* rawPlugins)`: a missing stage and a missing order are written into them
PluginObjectsAfter(objects) == [i \in 1..Len(objects) |-> WithDefaults(objects[i])]

\* the resolver up to `new ClassNameBuilder(...)`, constructor included: the
\* constructor writes the default stage and order into the plugin objects,
\* which are the objects the caller and the registry hold
Resolve ==
    /\ pc = "call"
    /\ builder' = ResolverBuilder(config, options, plugins, getPlugins(pluginHub))
    /\ plugins' = PluginObjectsAfter(plugins)
    /\ pluginHub' = PluginObjectsAfter(pluginHub)
    /\ config' = IF Truthy(config.defaultVariants)
                 THEN [config EXCEPT !.defaultVariants =
                          Obj(DefaultsAfterMerge(@.v, options.variants))]
                 ELSE config
    /\ registryOp' = [registryOp EXCEPT
                         !.plugin = IF @ \in Range(pluginHub)
                                    THEN PluginObjectsAfter(<<@>>)[1] ELSE @,
                         !.list = [i \in 1..Len(@) |->
                                      IF @[i] \in Range(pluginHub)
                                      THEN PluginObjectsAfter(<<@[i]>>)[1] ELSE @[i]]]
    /\ pc' = "before"
    /\ idx' = 1
    /\ UNCHANGED <<options, finalList, classString, thrown, pending, settled, log>>
    /\ UNCHANGED <<hubAtCreation, production>>
    /\ UNCHANGED <<normVars, logicVars, copyVars, callVars>>

\* build() with the post-core callbacks flushed after the 'after' plugins
StatementAfterFlushLast(statement) ==
    CASE statement = "before" -> "core"
      [] statement = "core" -> "after"
      [] statement = "after" -> "postCore"
      [] statement = "postCore" -> "final"
      [] statement = "final" -> "concat"

\* the loops of build() in the order of its text
StatementAfter(statement) ==
    CASE statement = "before" -> "core"
      [] statement = "core" -> "postCore"
      [] statement = "postCore" -> "after"
      [] statement = "after" -> "final"
      [] statement = "final" -> "concat"

\* the plugins of allPlugins at or after idx whose stage is the running one
Remaining == {j \in idx..Len(builder.allPlugins) : builder.allPlugins[j].stage = pc}

\* one iteration of a plugin loop that applies a plugin: `void plugin.apply(this)`
ApplyPlugin ==
    /\ pc \in Stages
    /\ Remaining # {}
    /\ LET j == CHOOSE m \in Remaining : \A n \in Remaining : m <= n
           p == builder.allPlugins[j]
           r == PluginApply(builder, p, ConfigCallbacks)
       IN  /\ builder' = r.b
           /\ log' = Append(log, [ev |-> "apply", id |-> p.id, stage |-> p.stage,
                                  order |-> p.order[1]])
           /\ IF r.err # NoError
              THEN /\ pc' = "threw"
                   /\ thrown' = r.err
                   /\ UNCHANGED <<idx, pending>>
              ELSE /\ idx' = j + 1
                   /\ pending' = IF p.deferred # <<>> THEN Append(pending, p) ELSE pending
                   /\ UNCHANGED <<pc, thrown>>
    /\ UNCHANGED <<config, options, plugins, pluginHub, finalList, classString, settled>>
    /\ UNCHANGED <<normVars, logicVars, hubVars, copyVars, callVars>>

\* a plugin loop ends: the next statement of build() is reached
EndStage ==
    /\ pc \in Stages
    /\ Remaining = {}
    /\ pc' = StatementAfter(pc)
    /\ idx' = 1
    /\ UNCHANGED <<config, options, plugins, pluginHub, builder, finalList, classString,
                   thrown, pending, settled, log>>
    /\ UNCHANGED <<normVars, logicVars, hubVars, copyVars, callVars>>

\* one iteration of `for (const cb of this.postCoreCallbacks) cb()`
RunPostCoreCallback ==
    /\ pc = "postCore"
    /\ idx <= Len(builder.postCoreCallbacks)
    /\ LET r == RunCalls(builder, CallbackBody(builder.postCoreCallbacks[idx]))
       IN  /\ builder' = r.b
           /\ IF r.err # NoError
              THEN pc' = "threw" /\ thrown' = r.err /\ UNCHANGED idx
              ELSE idx' = idx + 1 /\ UNCHANGED <<pc, thrown>>
    /\ log' = Append(log, [ev |-> "postCoreCallback", id |-> builder.postCoreCallbacks[idx],
                           stage |-> "", order |-> 0])
    /\ UNCHANGED <<config, options, plugins, pluginHub, finalList, classString, pending,
                   settled>>
    /\ UNCHANGED <<normVars, logicVars, hubVars, copyVars, callVars>>

EndPostCore ==
    /\ pc = "postCore"
    /\ idx > Len(builder.postCoreCallbacks)
    /\ pc' = StatementAfter(pc)
    /\ idx' = 1
    /\ UNCHANGED <<config, options, plugins, pluginHub, builder, finalList, classString,
                   thrown, pending, settled, log>>
    /\ UNCHANGED <<normVars, logicVars, hubVars, copyVars, callVars>>

\* one iteration of `for (const cb of this.finalBuildCallbacks) cb()`
RunFinalBuildCallback ==
    /\ pc = "final"
    /\ idx <= Len(builder.finalBuildCallbacks)
    /\ LET r == RunCalls(builder, CallbackBody(builder.finalBuildCallbacks[idx]))
       IN  /\ builder' = r.b
           /\ IF r.err # NoError
              THEN pc' = "threw" /\ thrown' = r.err /\ UNCHANGED idx
              ELSE idx' = idx + 1 /\ UNCHANGED <<pc, thrown>>
    /\ log' = Append(log, [ev |-> "finalBuildCallback",
                           id |-> builder.finalBuildCallbacks[idx],
                           stage |-> "", order |-> 0])
    /\ UNCHANGED <<config, options, plugins, pluginHub, finalList, classString, pending,
                   settled>>
    /\ UNCHANGED <<normVars, logicVars, hubVars, copyVars, callVars>>

EndFinal ==
    /\ pc = "final"
    /\ idx > Len(builder.finalBuildCallbacks)
    /\ pc' = StatementAfter(pc)
    /\ idx' = 1
    /\ UNCHANGED <<config, options, plugins, pluginHub, builder, finalList, classString,
                   thrown, pending, settled, log>>
    /\ UNCHANGED <<normVars, logicVars, hubVars, copyVars, callVars>>

\* the buckets are combined, build() returns, the resolver joins and returns
Concatenate ==
    /\ pc = "concat"
    /\ finalList' = BuildFinalList(builder)
    /\ classString' = JoinSpace(finalList')
    /\ log' = Append(log, [ev |-> "concat", id |-> "", stage |-> "", order |-> 0])
    /\ pc' = "returned"
    /\ UNCHANGED <<config, options, plugins, pluginHub, builder, idx, thrown, pending,
                   settled>>
    /\ UNCHANGED <<normVars, logicVars, hubVars, copyVars, callVars>>

\* the rest of an asynchronous apply.  build() is synchronous: nothing else
\* runs until the resolver has returned or thrown, whatever the plugin awaits
Settle ==
    /\ pc \in {"returned", "threw"}
    /\ \E i \in 1..Len(pending) :
          /\ builder' = ApplyCalls(builder, pending[i].deferred)
          /\ pending' = SubSeq(pending, 1, i - 1) \o SubSeq(pending, i + 1, Len(pending))
          /\ settled' = Append(settled, pending[i].id)
          /\ log' = Append(log, [ev |-> "settle", id |-> pending[i].id,
                                 stage |-> "", order |-> 0])
    /\ UNCHANGED <<config, options, plugins, pluginHub, pc, idx, finalList, classString,
                   thrown>>
    /\ UNCHANGED <<normVars, logicVars, hubVars, copyVars, callVars>>

Next ==
    \/ Resolve
    \/ ApplyPlugin
    \/ EndStage
    \/ RunPostCoreCallback
    \/ EndPostCore
    \/ RunFinalBuildCallback
    \/ EndFinal
    \/ Concatenate
    \/ Settle

Spec == InitResolve /\ [][Next]_vars

(***************************************************************************)
(* SpecRules: the same resolver called on configurations with rules and    *)
(* with dependent states.                                                  *)
(***************************************************************************)
AlwaysWhen == When(<<>>, <<>>, NoLogic)

RemoveBase == Remove(<<>>, <<>>, Undefined, TRUE)

\* variants and states of the configurations with conditional rules
RuleVariants ==
    Obj(<< <<"size", Obj(<< <<"sm", Str(<<"s">>)>>, <<"lg", Str(<<"l">>)>> >>)>>,
           <<"color", Obj(<< <<"red", Str(<<"r">>)>>, <<"blue", Str(<<"u">>)>>,
                             <<"none", Str(<<>>)>> >>)>> >>)

RuleStates ==
    Obj(<< <<"focused", StateConfig(Str(<<"t">>),
                                    DependsOn(<<Req("hovered"), Not(<<"disabled">>)>>))>>,
           <<"hovered", Str(<<"h">>)>>,
           <<"disabled", Str(<<"d">>)>> >>)

\* the configuration of the README's advanced example; a class name is one
\* character of the alphabet here, and the callback f stands for `success`
ReadmeConfig ==
    ArtoConfigWithRules(
        Str(<<"base">>),
        Obj(<< <<"intent",
                 Obj(<< <<"info", Str(<<"intent-info">>)>>,
                        <<"danger",
                          VariantConfig(
                              Str(<<"intent-danger">>),
                              Obj(<< <<"hovered",
                                       StateConfig(Str(<<"intent-danger-hovered">>),
                                                   DependsOn(<<Not(<<"disabled">>)>>))>> >>))>>,
                        <<"success", Fn("f")>> >>)>>,
               <<"size", Obj(<< <<"sm", Str(<<"size-sm">>)>>,
                               <<"md", Str(<<"size-md">>)>> >>)>> >>),
        Obj(<< <<"hovered", StateConfig(Str(<<"global-hovered">>),
                                        DependsOn(<<Not(<<"disabled">>)>>))>>,
               <<"disabled", Str(<<"global-disabled">>)>> >>),
        Null,
        Arr(<<Rule(When(<< <<"intent", <<"info", "danger">> >> >>, <<"hovered">>,
                        LogicOp("AND")),
                   Null, Str(<<"rule-class">>))>>))

RuleConfigPool == <<
    \* { className: 'x', rules: [{ when: {}, remove: { base: true }, add: 'y' }] }
    ArtoConfigWithRules(Str(<<"x">>), Null, Null, Null,
        Arr(<<Rule(AlwaysWhen, RemoveBase, Str(<<"y">>))>>)),
    \* an adding rule, then a rule that removes the base classes
    ArtoConfigWithRules(Str(<<"x">>), Null, Null, Null,
        Arr(<<Rule(AlwaysWhen, Null, Str(<<"m">>)),
              Rule(AlwaysWhen, RemoveBase, Str(<<"n">>))>>)),
    \* the same two rules declared in the opposite order
    ArtoConfigWithRules(Str(<<"x">>), Null, Null, Null,
        Arr(<<Rule(AlwaysWhen, RemoveBase, Str(<<"n">>)),
              Rule(AlwaysWhen, Null, Str(<<"m">>))>>)),
    \* conditional rules over two variants and three states
    ArtoConfigWithRules(Str(<<"x">>), RuleVariants, RuleStates,
        Obj(<< <<"size", "sm">> >>),
        Arr(<<Rule(When(<< <<"size", <<"lg">> >>, <<"color", <<"red", "blue">> >> >>,
                        <<"hovered">>, NoLogic),
                   Null, Str(<<"m">>)),
              Rule(AlwaysWhen, Null, Str(<<"n">>)),
              Rule(When(<<>>, <<"hovered", "disabled">>, NoLogic), Null, Str(<<"k">>)),
              Rule(When(<< <<"size", <<"sm", "lg">> >> >>, <<"focused">>, LogicOp("XOR")),
                   Remove(<<"color">>, <<"hovered">>, "global", FALSE), Null),
              Rule(When(<< <<"color", <<"red">> >> >>, <<"disabled">>,
                        LogicObj(LogicObject("AND", Undefined, "OR"))),
                   Remove(<<>>, <<"disabled">>, Undefined, FALSE), Str(<<"j">>)),
              Rule(When(<<>>, <<>>, LogicFn(FALSE)), Null, Str(<<"i">>)),
              Rule(When(<<>>, <<"focused">>, NoLogic),
                   Remove(<<>>, <<"hovered">>, "variant", FALSE), Null),
              Rule(When(<< <<"color", <<"red">> >> >>, <<"hovered">>, LogicOp("IMPLIES")),
                   Null, Str(<<"im">>)),
              Rule(When(<< <<"color", <<"red">> >> >>, <<"hovered">>, LogicOp("XOR")),
                   Null, Str(<<"xr">>)),
              Rule(When(<< <<"color", <<"red">> >> >>, <<"hovered">>, LogicOp("NOT")),
                   Null, Str(<<"nt">>)),
              Rule(When(<< <<"color", <<"red">> >>, <<"size", <<"lg">> >> >>,
                        <<"hovered", "disabled">>, LogicOp("IMPLIES")),
                   Null, Str(<<"ii">>)),
              Rule(When(<<>>, <<"disabled">>, NoLogic),
                   Remove(<<"size">>, <<>>, "all", FALSE), Null)>>)),
    ReadmeConfig,
    \* no rules: a variant value with nested states, two global states
    ConfigPool[3] >>

\* options.variants
RuleVariantOptionsPool == <<
    <<>>,
    << <<"size", "lg">> >>,
    << <<"size", "lg">>, <<"color", "red">> >>,
    << <<"color", "blue">>, <<"size", NullValue>> >>,
    << <<"color", "green">> >>,
    << <<"color", "constructor">> >>,
    << <<"intent", "info">>, <<"size", "sm">> >>,
    << <<"intent", "danger">>, <<"size", "sm">> >>,
    << <<"color", "none">> >> >>

\* options.states: every subset of the three states, in two key orders
RuleStateOptionsPool == <<
    <<>>,
    << <<"hovered", TRUE>> >>,
    << <<"disabled", TRUE>> >>,
    << <<"focused", TRUE>> >>,
    << <<"hovered", TRUE>>, <<"disabled", TRUE>> >>,
    << <<"focused", TRUE>>, <<"hovered", TRUE>> >>,
    << <<"disabled", TRUE>>, <<"focused", TRUE>> >>,
    << <<"hovered", TRUE>>, <<"focused", TRUE>>, <<"disabled", TRUE>> >>,
    << <<"focused", TRUE>>, <<"hovered", TRUE>>, <<"disabled", FALSE>> >> >>

\* custom plugins that throw, or register a callback that throws
ThrowingPlugins == <<
    \* apply(b) { b.addBaseClasses(['t']); throw new Error('boom'); ... }
    Plugin("core-throws", "core", <<9>>, "custom",
           <<Call("addBaseClasses", "", "", << <<"t">> >>),
             Call("throw", "boom", "", <<>>),
             Call("addBaseClasses", "", "", << <<"u">> >>)>>, <<>>),
    Plugin("core-callback-throws", "core", <<9>>, "custom",
           <<Call("addPostCoreCallback", "throwMark", "", <<>>),
             Call("addPostCoreCallback", "postCoreMark", "", <<>>),
             Call("addFinalBuildCallback", "finalMark", "", <<>>)>>, <<>>),
    Plugin("after-callback-throws", "after", <<0>>, "custom",
           <<Call("addFinalBuildCallback", "throwMark", "", <<>>),
             Call("addFinalBuildCallback", "finalMark", "", <<>>)>>, <<>>) >>

\* custom plugins that register callbacks in the 'before' stage, and in the
\* 'after' stage, when the post-core callbacks have already run
RegisteringPlugins == <<
    Plugin("before-registers", "before", <<2>>, "custom",
           <<Call("addPostCoreCallback", "earlyMark", "", <<>>),
             Call("addFinalBuildCallback", "earlyMark", "", <<>>)>>, <<>>),
    Plugin("after-registers", "after", <<1>>, "custom",
           <<Call("addPostCoreCallback", "lateMark", "", <<>>),
             Call("addFinalBuildCallback", "lateMark", "", <<>>)>>, <<>>),
    Plugin("core-registers-final", "core", <<1>>, "custom",
           <<Call("addFinalBuildCallback", "registerLate", "", <<>>)>>, <<>>) >>

\* a 'before' plugin that fills (variant, state) buckets
BeforeVariantStates ==
    Plugin("before-variant-states", "before", <<0>>, "custom",
           <<Call("addVariantStateClasses", "size", "hovered", << <<"ph">> >>),
             Call("addVariantStateClasses", "size", "disabled", << <<"pd">> >>),
             Call("addVariantStateClasses", "color", "hovered", << <<"pc">> >>),
             Call("addVariantStateClasses", "intent", "hovered", << <<"pi">> >>)>>, <<>>)

\* the lists of local plugins: none, one with callbacks, an asynchronous
\* one, three with a plugin or a callback that throws, one whose plugins
\* register callbacks in every stage, one that fills (variant, state) buckets
RulePluginLists ==
    {<<>>, <<PluginPool[2]>>, <<PluginPool[5]>>, <<BeforeVariantStates>>,
     <<PluginPool[4], RegisteringPlugins[2], PluginPool[2], RegisteringPlugins[1]>>,
     <<PluginPool[2], ThrowingPlugins[1], PluginPool[4]>>,
     <<ThrowingPlugins[2], PluginPool[4]>>,
     <<ThrowingPlugins[3]>>,
     <<RegisteringPlugins[2], RegisteringPlugins[3], RegisteringPlugins[1]>>}

\* custom plugins that tie with each other and with the built-in plugins:
\* stage 'core' and order 0, declared or by default
TiedPlugins == <<
    Plugin("tie-a", "core", <<0>>, "custom",
           <<Call("addBaseClasses", "", "", << <<"ta">> >>)>>, <<>>),
    Plugin("tie-b", Undefined, <<>>, "custom",
           <<Call("addBaseClasses", "", "", << <<"tb">> >>)>>, <<>>),
    Plugin("tie-c", "core", <<0>>, "custom",
           <<Call("addBaseClasses", "", "", << <<"tc">> >>)>>, <<>>),
    Plugin("tie-d", Undefined, <<>>, "custom",
           <<Call("addBaseClasses", "", "", << <<"td">> >>)>>, <<>>) >>

\* <<local plugins, registered plugins>>, in two orders
TiedSetups == <<
    << <<TiedPlugins[1], TiedPlugins[2]>>, <<TiedPlugins[3], TiedPlugins[4]>> >>,
    << <<TiedPlugins[2], TiedPlugins[1]>>, <<TiedPlugins[4], TiedPlugins[3]>> >> >>

InitRules ==
    /\ \E i \in 1..Len(RuleConfigPool) : config = RuleConfigPool[i]
    /\ \E i \in 1..Len(RuleVariantOptionsPool), j \in 1..Len(RuleStateOptionsPool) :
          options = [variants |-> RuleVariantOptionsPool[i],
                     states |-> RuleStateOptionsPool[j]]
    /\ \/ plugins \in RulePluginLists /\ pluginHub = <<>>
       \/ \E i \in 1..Len(TiedSetups) :
             plugins = TiedSetups[i][1] /\ pluginHub = TiedSetups[i][2]
    /\ IdleResolveState
    /\ pc = "call"
    /\ IdleHub
    /\ IdleCopy
    /\ IdleCalls
    /\ IdleNorm
    /\ IdleLogic

SpecRules == InitRules /\ [][Next]_vars

(***************************************************************************)
(* Claims about build().                                                   *)
(***************************************************************************)
\* the number of occurrences of t in s
Count(s, t) == Cardinality({i \in 1..Len(s) : s[i] = t})

\* what build() itself ran: the log without the completions that came later
BuildLog == SelectSeq(log, LAMBDA e : e.ev # "settle")

EventRank(e) ==
    CASE e.ev = "apply" /\ e.stage = "before" -> 0
      [] e.ev = "apply" /\ e.stage = "core" -> 1
      [] e.ev = "postCoreCallback" -> 2
      [] e.ev = "apply" /\ e.stage = "after" -> 3
      [] e.ev = "finalBuildCallback" -> 4
      [] e.ev = "concat" -> 5

PluginRank(p) ==
    CASE p.stage = "before" -> 0
      [] p.stage = "core" -> 1
      [] p.stage = "after" -> 3

\* the plugin `id` has been applied before position i of the log L
AppliedBefore(L, id, i) ==
    \E j \in 1..(i - 1) : L[j].ev = "apply" /\ L[j].id = id

\* C1: build() applies every 'before' plugin, then every 'core' plugin, then
\* runs the post-core callbacks, then applies every 'after' plugin, then runs
\* the final-build callbacks, and only then concatenates the buckets; within
\* a stage the plugins are applied in ascending order, each plugin once
C1_StageOrder ==
    LET L == BuildLog
    IN  /\ \A i, j \in 1..Len(L) : i < j => EventRank(L[i]) <= EventRank(L[j])
        /\ \A i, j \in 1..Len(L) :
              (/\ i < j
               /\ L[i].ev = "apply"
               /\ L[j].ev = "apply"
               /\ L[i].stage = L[j].stage)
              => L[i].order <= L[j].order
        /\ \A i \in 1..Len(L) :
              \A k \in 1..Len(builder.allPlugins) :
                 PluginRank(builder.allPlugins[k]) < EventRank(L[i])
                 => AppliedBefore(L, builder.allPlugins[k].id, i)
        /\ \A i, j \in 1..Len(L) :
              (i < j /\ L[i].ev = "apply" /\ L[j].ev = "apply") => L[i].id # L[j].id

\* C1 witness: a build that returned after applying two 'before' plugins
\* listed in descending order, a 'core' and an 'after' plugin, and running a
\* post-core and a final-build callback
C1_Witness ==
    /\ pc = "returned"
    /\ Len(plugins) >= 2
    /\ plugins[1].id = "before-global-state"
    /\ plugins[2].id = "before-async"
    /\ AppliedBefore(BuildLog, "before-async", Len(BuildLog))
    /\ AppliedBefore(BuildLog, "before-global-state", Len(BuildLog))
    /\ \E i, j, k, l \in 1..Len(BuildLog) :
          /\ BuildLog[i].ev = "apply" /\ BuildLog[i].stage = "core"
          /\ BuildLog[j].ev = "postCoreCallback"
          /\ BuildLog[k].ev = "apply" /\ BuildLog[k].stage = "after"
          /\ BuildLog[l].ev = "finalBuildCallback"

\* the tokens the deferred part of a plugin adds to the base bucket
DeferredTokens(p) ==
    UNION {Range(p.deferred[i].classNames) : i \in 1..Len(p.deferred)}

\* C2 (as claimed): an apply that returned a pending completion is followed
\* by that completion before anything else of build() runs, and the list
\* build() returns holds what the plugin added after its suspension point
C2_AwaitsCompletion ==
    /\ \A i \in 1..Len(log) :
          (log[i].ev = "apply" /\ \E k \in 1..Len(pending) : pending[k].id = log[i].id)
          => i = Len(log)
    /\ pc = "returned" =>
          \A k \in 1..Len(builder.allPlugins) :
             DeferredTokens(builder.allPlugins[k]) \subseteq Range(finalList)

\* the tokens of the buckets, group by group, as build() finds them
VariantGroupCount(b, t) ==
    SumSeq([i \in 1..Len(b.variantClassNames) |-> Count(b.variantClassNames[i][2], t)])

VariantStateGroupCount(b, t) ==
    SumSeq([i \in 1..Len(b.variantStateClassNames) |->
        SumSeq([j \in 1..Len(b.variantStateClassNames[i][2]) |->
            IF b.variantStateClassNames[i][2][j][1] \in Range(b.activeStates)
            THEN Count(b.variantStateClassNames[i][2][j][2], t)
            ELSE 0])])

GlobalStateGroupCount(b, t) ==
    SumSeq([i \in 1..Len(b.globalStateClassNames) |->
        Count(b.globalStateClassNames[i][2], t)])

VariantGroupLen(b) ==
    SumSeq([i \in 1..Len(b.variantClassNames) |-> Len(b.variantClassNames[i][2])])

VariantStateGroupLen(b) ==
    SumSeq([i \in 1..Len(b.variantStateClassNames) |->
        SumSeq([j \in 1..Len(b.variantStateClassNames[i][2]) |->
            IF b.variantStateClassNames[i][2][j][1] \in Range(b.activeStates)
            THEN Len(b.variantStateClassNames[i][2][j][2])
            ELSE 0])])

GlobalStateGroupLen(b) ==
    SumSeq([i \in 1..Len(b.globalStateClassNames) |-> Len(b.globalStateClassNames[i][2])])

\* the state right after build() returned: the buckets are those it combined
JustReturned == pc = "returned" /\ settled = <<>>

\* where the groups of the returned list end
BaseEnd == Len(builder.baseClassNames)
VariantEnd == BaseEnd + VariantGroupLen(builder)
VariantStateEnd == VariantEnd + VariantStateGroupLen(builder)

\* the part of the returned list after position m, up to position n
Segment(m, n) == SubSeq(finalList, m + 1, n)

\* C3: the returned list is the base bucket, then the tokens of the variant
\* buckets, then those of the (variant, state) buckets of active states,
\* then those of the global-state buckets, in this order of groups whatever
\* order the buckets were filled in
C3_GroupOrder ==
    JustReturned =>
       /\ VariantStateEnd <= Len(finalList)
       /\ Segment(0, BaseEnd) = builder.baseClassNames
       /\ \A t \in Range(Segment(BaseEnd, VariantEnd)) :
             Count(Segment(BaseEnd, VariantEnd), t) = VariantGroupCount(builder, t)
       /\ \A t \in Range(Segment(VariantEnd, VariantStateEnd)) :
             Count(Segment(VariantEnd, VariantStateEnd), t)
                = VariantStateGroupCount(builder, t)
       /\ Len(finalList) - VariantStateEnd = GlobalStateGroupLen(builder)
       /\ \A t \in Range(Segment(VariantStateEnd, Len(finalList))) :
             Count(Segment(VariantStateEnd, Len(finalList)), t)
                = GlobalStateGroupCount(builder, t)

\* C3 witness: a returned list with all four groups, where a 'before' plugin
\* filled a global-state bucket before any other bucket was filled
C3_Witness ==
    /\ JustReturned
    /\ BaseEnd > 0
    /\ VariantEnd > BaseEnd
    /\ VariantStateEnd > VariantEnd
    /\ Len(finalList) > VariantStateEnd
    /\ log[1].ev = "apply"
    /\ log[1].id = "before-global-state"

\* C4 (as claimed): a token of the global-state group of the returned list
\* comes from the bucket of a state that is active when the buckets are
\* combined
C4_OnlyActiveGlobalStates ==
    JustReturned =>
       \A i \in (VariantStateEnd + 1)..Len(finalList) :
          \E k \in 1..Len(builder.globalStateClassNames) :
             /\ builder.globalStateClassNames[k][1] \in Range(builder.activeStates)
             /\ finalList[i] \in Range(builder.globalStateClassNames[k][2])

WhenHolds(when) ==
    /\ \A i \in 1..Len(when.variants) :
          LET userValue == ObjGetOr(builder.selectedVariants, when.variants[i][1], NullValue)
          IN  userValue # NullValue /\ userValue \in Range(when.variants[i][2])
    /\ \A st \in Range(when.states) : st \in Range(builder.activeStates)

\* no rule of the configuration removes the base classes
NoBaseRemoval ==
    \A i \in 1..Len(config.rules.v) :
       Truthy(config.rules.v[i].remove) => ~config.rules.v[i].remove.v.base

\* C12: a rule without logic applies (its classes reach the base bucket)
\* if and only if every variant key of when.variants has a selected,
\* non-null value among the accepted ones and every state of when.states is
\* active; a rule with `when: {}` always applies
C12_NoLogicRule ==
    (JustReturned /\ Truthy(config.rules) /\ NoBaseRemoval) =>
       \A i \in 1..Len(config.rules.v) :
          LET rule == config.rules.v[i]
          IN  (rule.when.logic = NoLogic /\ Truthy(rule.add)) =>
                 (rule.add.v \in Range(builder.baseClassNames) <=> WhenHolds(rule.when))

\* C12 witness: size 'lg' and color selected, hovered active, disabled not:
\* the rule on size, color and hovered and the rule with `when: {}` have
\* applied, the rule on hovered and disabled has not
C12_Witness ==
    /\ JustReturned
    /\ config = RuleConfigPool[4]
    /\ ObjGetOr(builder.selectedVariants, "size", NullValue) = "lg"
    /\ <<"m">> \in Range(builder.baseClassNames)
    /\ <<"n">> \in Range(builder.baseClassNames)
    /\ <<"k">> \notin Range(builder.baseClassNames)

\* RulesPlugin.apply has just returned
AfterRules ==
    /\ pc = "core"
    /\ log # <<>>
    /\ log[Len(log)].ev = "apply"
    /\ log[Len(log)].id = "arto/Internal/RulesPlugin"

\* the configuration has the single rule { when: {}, remove: { base: true }, add }
SingleReplacingRule ==
    /\ Truthy(config.rules)
    /\ Len(config.rules.v) = 1
    /\ config.rules.v[1].when = AlwaysWhen
    /\ config.rules.v[1].remove = RemoveBase
    /\ config.rules.v[1].add.k = "str"

\* C13: remove is applied before add: with the single always-matching rule
\* { remove: { base: true }, add: Y } the base bucket holds exactly the
\* tokens of Y after the rules, and a resolution without custom plugins
\* returns Y
C13_RemoveBeforeAdd ==
    /\ (AfterRules /\ SingleReplacingRule) =>
          builder.baseClassNames = SplitWhitespace(config.rules.v[1].add.v)
    /\ (JustReturned /\ SingleReplacingRule /\ plugins = <<>>) =>
          classString = JoinSpace(SplitWhitespace(config.rules.v[1].add.v))

\* C13 witness: { className: 'x', rules: [{ when: {}, remove: { base: true },
\* add: 'y' }] } has resolved to 'y', the base plugin having run
C13_Witness ==
    /\ JustReturned
    /\ config = RuleConfigPool[1]
    /\ plugins = <<>>
    /\ \E i \in 1..Len(log) : log[i].id = "arto/Internal/AddBaseClassesPlugin"
    /\ classString = <<"y">>

\* the i-th rule of the configuration applies to the call
Applies(i) ==
    doesRuleApply(config.rules.v[i].when, builder.selectedVariants, builder.activeStates)

\* C14: rules act in declaration order, each on the buckets the previous one
\* left: the classes a matching rule added are in the base bucket after the
\* rules if and only if no matching rule declared after it removes the base
\* classes
C14_DeclarationOrder ==
    AfterRules =>
       \A i \in 1..Len(config.rules.v) :
          (Applies(i) /\ Truthy(config.rules.v[i].add)) =>
             (config.rules.v[i].add.v \in Range(builder.baseClassNames)
                <=> ~\E j \in (i + 1)..Len(config.rules.v) :
                        /\ Applies(j)
                        /\ Truthy(config.rules.v[j].remove)
                        /\ config.rules.v[j].remove.v.base)

\* C14 witness: 'add m' declared before 'remove base, add n': m is gone
C14_Witness ==
    /\ AfterRules
    /\ config = RuleConfigPool[2]
    /\ builder.baseClassNames = << <<"n">> >>

\* C14, the opposite order: 'remove base, add n' declared before 'add m'
C14_WitnessOpposite ==
    /\ AfterRules
    /\ config = RuleConfigPool[3]
    /\ builder.baseClassNames = << <<"n">>, <<"m">> >>

(***************************************************************************)
(* Claims about the selection of variants.                                 *)
(***************************************************************************)
\* the i-th declared variant key has a selected, non-null value that is not
\* among the values declared for it
InvalidSelection(i) ==
    LET userValue == ObjGetOr(builder.selectedVariants, config.variants.v[i][1], NullValue)
    IN  /\ userValue # NullValue
        /\ userValue \notin Range(ObjKeys(config.variants.v[i][2].v))

InvalidValueError(i) ==
    ArtoError("Invalid value '"
                 \o ObjGetOr(builder.selectedVariants, config.variants.v[i][1], NullValue)
                 \o "' for variant '" \o config.variants.v[i][1] \o "'.")

\* C15 (as claimed): a call whose selection gives a declared variant key a
\* non-null value that is not declared for it throws the ArtoError made
\* from "Invalid value '<value>' for variant '<key>'." and returns no string
C15_InvalidVariantValue ==
    (pc \in {"returned", "threw"} /\ Truthy(config.variants)) =>
       \A i \in 1..Len(config.variants.v) :
          InvalidSelection(i) =>
             /\ pc = "threw"
             /\ classString = <<>>
             /\ \E j \in 1..Len(config.variants.v) :
                   InvalidSelection(j) /\ thrown = InvalidValueError(j)

\* the value the caller passed for a key, NullValue when omitted or null
CallerValue(key) == ObjGetOr(options.variants, key, NullValue)

\* the configured defaults
Defaults == IF Truthy(config.defaultVariants) THEN config.defaultVariants.v ELSE <<>>

\* C16: for every key the selection holds the caller's value if it is not
\* null, else the configured default if there is one, else nothing; the
\* defaults object is never modified
C16_DefaultMerge ==
    /\ [](pc # "call" =>
            /\ \A key \in Range(ObjKeys(options.variants)) \cup Range(ObjKeys(Defaults)) :
                  IF CallerValue(key) # NullValue
                  THEN ObjGetOr(builder.selectedVariants, key, NullValue) = CallerValue(key)
                  ELSE IF ObjHas(Defaults, key)
                  THEN ObjGetOr(builder.selectedVariants, key, NullValue)
                          = ObjGet(Defaults, key)
                  ELSE ~ObjHas(builder.selectedVariants, key)
            /\ Range(ObjKeys(builder.selectedVariants))
                  \subseteq Range(ObjKeys(options.variants)) \cup Range(ObjKeys(Defaults)))
    /\ [][config'.defaultVariants = config.defaultVariants]_vars

\* C16 witness: default size 'sm', the caller passes size null and color
\* 'blue': the selection is size 'sm', color 'blue'
C16_Witness ==
    /\ pc = "returned"
    /\ ObjGetOr(Defaults, "size", NullValue) = "sm"
    /\ ObjHas(options.variants, "size")
    /\ CallerValue("size") = NullValue
    /\ ObjGetOr(builder.selectedVariants, "size", NullValue) = "sm"
    /\ ObjGetOr(builder.selectedVariants, "color", NullValue) = "blue"

(***************************************************************************)
(* Claims about the global states.                                         *)
(***************************************************************************)
\* StatesPlugin.apply has just returned
AfterStates ==
    /\ pc = "core"
    /\ log # <<>>
    /\ log[Len(log)].ev = "apply"
    /\ log[Len(log)].id = "arto/Internal/ApplyStateClassesPlugin"

\* the dependency the claim states for a declared state: every named state
\* is active and no state inside a `not` wrapper is
DependencyHolds(stateConfig) ==
    (stateConfig.k = "stateConfig" /\ stateConfig.v[2].k = "deps") =>
       \A i \in 1..Len(stateConfig.v[2].v) :
          LET entry == stateConfig.v[2].v[i]
          IN  /\ entry.k = "req" => entry.v[1] \in Range(builder.activeStates)
              /\ entry.k = "not" => Range(entry.v) \cap Range(builder.activeStates) = {}

\* the tokens a declared state contributes
StateTokens(stateConfig) ==
    SplitWhitespace(IF stateConfig.k = "stateConfig" THEN stateConfig.v[1].v
                    ELSE stateConfig.v)

\* no rule of the configuration removes classes of state s
NoRuleRemoves(s) ==
    Truthy(config.rules) =>
       \A i \in 1..Len(config.rules.v) :
          Truthy(config.rules.v[i].remove) =>
             s \notin Range(config.rules.v[i].remove.v.states)

\* C17: a declared global state contributes its classes if and only if it
\* is active and its dependency, if it has one, holds: every named state is
\* active and no state inside a `not` wrapper is active
C17_StateDependency ==
    Truthy(config.states) =>
       \A i \in 1..Len(config.states.v) :
          LET s == config.states.v[i][1]
              stateConfig == config.states.v[i][2]
              contributes == s \in Range(builder.activeStates) /\ DependencyHolds(stateConfig)
          IN  /\ AfterStates =>
                    ObjGetOr(builder.globalStateClassNames, s, <<>>)
                       = IF contributes THEN StateTokens(stateConfig) ELSE <<>>
              /\ (JustReturned /\ NoRuleRemoves(s)) =>
                    \A t \in Range(StateTokens(stateConfig)) :
                       t \in Range(finalList) <=> contributes

\* C17 witness: focused depends on ['hovered', { not: ['disabled'] }];
\* focused and hovered are active, disabled was passed as false: the class
\* of focused is in the result
C17_Witness ==
    /\ JustReturned
    /\ Truthy(config.states)
    /\ ObjHas(config.states.v, "focused")
    /\ ObjHas(options.states, "disabled")
    /\ Range(builder.activeStates) = {"focused", "hovered"}
    /\ <<"t">> \in Range(finalList)

(***************************************************************************)
(* SpecHub: the global registry pluginHub is changed while a resolver is   *)
(* created by arto() and then called.                                      *)
(***************************************************************************)
MaxBatch == 2

\* the plugins handed to the registry: two different plugins with the id
\* 'hub-a', one with another id, one with an empty id
HubPool == <<
    Plugin("hub-a", "before", <<0>>, "custom",
           <<Call("addBaseClasses", "", "", << <<"a1">> >>)>>, <<>>),
    Plugin("hub-a", "after", <<0>>, "custom",
           <<Call("addBaseClasses", "", "", << <<"a2">> >>)>>, <<>>),
    Plugin("hub-b", Undefined, <<>>, "custom",
           <<Call("addBaseClasses", "", "", << <<"b1">> >>),
             Call("addPostCoreCallback", "postCoreMark", "", <<>>),
             Call("addFinalBuildCallback", "finalMark", "", <<>>)>>, <<>>),
    Plugin("", "core", <<1>>, "custom",
           <<Call("addBaseClasses", "", "", << <<"e1">> >>)>>,
           <<Call("addBaseClasses", "", "", << <<"z">> >>)>>) >>

HubPlugins == Range(HubPool)

HubIds == {"hub-a", "hub-b", "", "hub-c"}

HubBatches == UNION {[1..n -> HubPlugins] : n \in 0..MaxBatch}

InitHub ==
    /\ config = ConfigPool[2]
    /\ options = [variants |-> <<>>, states |-> <<>>]
    /\ plugins = <<>>
    /\ pluginHub = <<>>
    /\ IdleResolveState
    /\ pc = "nores"
    /\ registryOp = NoRegistryOp
    /\ hubAtCreation = <<>>
    /\ production \in BOOLEAN
    /\ IdleCopy
    /\ IdleCalls
    /\ IdleNorm
    /\ IdleLogic

\* the registry is changed before arto() creates the resolver, and between
\* the creation and the call of the resolver; no build() is running then
BetweenCalls == pc \in {"nores", "call"}

Register ==
    /\ BetweenCalls
    /\ \E plugin \in HubPlugins :
          LET r == register(pluginHub, plugin, production)
          IN  /\ pluginHub' = r.plugins
              /\ registryOp' = RegistryOp("register", plugin, plugin.id, <<>>, r.threw,
                                          r.replaced)
    /\ UNCHANGED <<config, options, plugins, builder, pc, idx, finalList, classString,
                   thrown, pending, settled, log, hubAtCreation, production>>
    /\ UNCHANGED <<normVars, logicVars, copyVars, callVars>>

RegisterBatch ==
    /\ BetweenCalls
    /\ \E list \in HubBatches :
          LET r == registerBatch(pluginHub, list, production)
          IN  /\ pluginHub' = r.plugins
              /\ registryOp' = RegistryOp("registerBatch", NoPlugin, "", list, r.threw,
                                          r.replaced)
    /\ UNCHANGED <<config, options, plugins, builder, pc, idx, finalList, classString,
                   thrown, pending, settled, log, hubAtCreation, production>>
    /\ UNCHANGED <<normVars, logicVars, copyVars, callVars>>

Unregister ==
    /\ BetweenCalls
    /\ \E id \in HubIds :
          /\ pluginHub' = unregister(pluginHub, id)
          /\ registryOp' = RegistryOp("unregister", NoPlugin, id, <<>>, FALSE, FALSE)
    /\ UNCHANGED <<config, options, plugins, builder, pc, idx, finalList, classString,
                   thrown, pending, settled, log, hubAtCreation, production>>
    /\ UNCHANGED <<normVars, logicVars, copyVars, callVars>>

Clear ==
    /\ BetweenCalls
    /\ pluginHub' = clear(pluginHub)
    /\ registryOp' = RegistryOp("clear", NoPlugin, "", <<>>, FALSE, FALSE)
    /\ UNCHANGED <<config, options, plugins, builder, pc, idx, finalList, classString,
                   thrown, pending, settled, log, hubAtCreation, production>>
    /\ UNCHANGED <<normVars, logicVars, copyVars, callVars>>

\* arto(config, plugins) returns the resolver; the registry is not read
CreateResolver ==
    /\ pc = "nores"
    /\ pc' = "call"
    /\ hubAtCreation' = pluginHub
    /\ UNCHANGED <<config, options, plugins, pluginHub, builder, idx, finalList,
                   classString, thrown, pending, settled, log, registryOp, production>>
    /\ UNCHANGED <<normVars, logicVars, copyVars, callVars>>

NextHub ==
    \/ Register
    \/ RegisterBatch
    \/ Unregister
    \/ Clear
    \/ CreateResolver
    \/ Next

SpecHub == InitHub /\ [][NextHub]_vars

\* the plugins of a list have different ids
UniqueIds(hub) == \A i, j \in 1..Len(hub) : i # j => hub[i].id # hub[j].id

\* the plugin the registry holds under the id is this one
StoredUnder(id, plugin) ==
    /\ \E i \in 1..Len(pluginHub) : pluginHub[i].id = id
    /\ \A i \in 1..Len(pluginHub) : pluginHub[i].id = id => pluginHub[i] = plugin

\* C18: the registry holds at most one plugin per id; after register(p) the
\* plugin under p.id is p, after unregister(id) there is none under id,
\* after clear() the registry is empty; after registerBatch(list) the
\* plugin under an id of the list is the last one of the list with that id
C18_RegistryIds ==
    /\ UniqueIds(pluginHub)
    /\ (registryOp.name = "register" /\ ~registryOp.threw) =>
          StoredUnder(registryOp.id, registryOp.plugin)
    /\ registryOp.name = "unregister" =>
          \A i \in 1..Len(pluginHub) : pluginHub[i].id # registryOp.id
    /\ registryOp.name = "clear" => pluginHub = <<>>
    /\ (registryOp.name = "registerBatch" /\ ~registryOp.threw) =>
          \A i \in 1..Len(registryOp.list) :
             (\A j \in (i + 1)..Len(registryOp.list) :
                 registryOp.list[j].id # registryOp.list[i].id)
             => StoredUnder(registryOp.list[i].id, registryOp.list[i])

\* C18 witness: the second plugin with id 'hub-a' has been registered over
\* the first one, announced as a replacement, with 'hub-b' registered too
C18_Witness ==
    /\ registryOp.name = "register"
    /\ registryOp.plugin = HubPool[2]
    /\ registryOp.replaced
    /\ pluginHub = <<HubPool[3], HubPool[2]>>

\* the class a plugin of the pool adds when it is applied
TokenOf(plugin) == plugin.sync[1].classNames[1]

\* C19 (as claimed): a resolver returns what the global plugins registered
\* when arto() created it produce, whatever was registered, unregistered or
\* cleared between its creation and its call
C19_ResolverKeepsPlugins ==
    JustReturned =>
       \A plugin \in HubPlugins :
          TokenOf(plugin) \in Range(finalList) <=> plugin \in Range(hubAtCreation)

(***************************************************************************)
(* SpecCopy: a caller (a plugin or a callback) writes the buckets of a     *)
(* builder, reads them through the getters, and writes into the arrays     *)
(* the getters returned.                                                   *)
(***************************************************************************)
MaxBucketLen == 1

\* an array a getter returned: the getter, the bucket it read, the array
HeldArray(from, bucket, key, state, array) ==
    [from |-> from, bucket |-> bucket, key |-> key, state |-> state,
     items |-> array.items, isBucket |-> array.isBucket, mutated |-> FALSE]

\* the elements of the bucket an array was read from
BucketOf(b, h) ==
    CASE h.bucket = "base" -> b.baseClassNames
      [] h.bucket = "variant" -> ObjGetOr(b.variantClassNames, h.key, <<>>)
      [] h.bucket = "state" -> ObjGetOr(b.globalStateClassNames, h.state, <<>>)
      [] OTHER -> VariantStateBucket(b, h.key, h.state)

\* a write through an array that is the bucket's own array
WriteBucketOf(b, h, items) ==
    CASE h.bucket = "base" -> [b EXCEPT !.baseClassNames = items]
      [] h.bucket = "variant" -> replaceVariantClasses(b, h.key, items)
      [] h.bucket = "state" -> replaceGlobalStateClasses(b, h.state, items)
      [] OTHER -> replaceVariantStateClasses(b, h.key, h.state, items)

SameBucket(g, h) == g.bucket = h.bucket /\ g.key = h.key /\ g.state = h.state

\* after push(...) into a bucket: the arrays that are this bucket show it
AfterPush(b, bucket, key, state) ==
    [i \in 1..Len(held) |->
        IF held[i].isBucket /\ held[i].bucket = bucket /\ held[i].key = key
           /\ held[i].state = state
        THEN [held[i] EXCEPT !.items = BucketOf(b, held[i])]
        ELSE held[i]]

\* after a bucket was assigned a new array: the old array is no bucket
AfterAssign(bucket, key, state) ==
    [i \in 1..Len(held) |->
        IF held[i].bucket = bucket /\ held[i].key = key /\ held[i].state = state
        THEN [held[i] EXCEPT !.isBucket = FALSE]
        ELSE held[i]]

CopyVariantKeys == {"size", "color"}

CopyStates == {"hovered"}

InitCopy ==
    /\ config = ConfigPool[1]
    /\ options = [variants |-> <<>>, states |-> <<>>]
    /\ plugins = <<>>
    /\ pluginHub = <<>>
    /\ builder = NewBuilder(ConfigPool[1], <<>>, <<"hovered">>, <<>>)
    /\ idx = 1
    /\ finalList = <<>>
    /\ classString = <<>>
    /\ thrown = NoError
    /\ pending = <<>>
    /\ settled = <<>>
    /\ log = <<>>
    /\ pc = "buckets"
    /\ IdleHub
    /\ held = <<>>
    /\ IdleCalls
    /\ IdleNorm
    /\ IdleLogic

CopyFrame ==
    /\ UNCHANGED <<config, options, plugins, pluginHub, pc, idx, finalList, classString,
                   thrown, pending, settled, log>>
    /\ UNCHANGED <<normVars, logicVars, hubVars, callVars>>

AddBase ==
    /\ pc = "buckets"
    /\ Len(builder.baseClassNames) < MaxBucketLen
    /\ builder' = addBaseClasses(builder, << <<"p">> >>)
    /\ held' = AfterPush(builder', "base", "", "")
    /\ CopyFrame

ClearBase ==
    /\ pc = "buckets"
    /\ builder' = clearBaseClasses(builder)
    /\ held' = AfterAssign("base", "", "")
    /\ CopyFrame

AddVariant ==
    /\ pc = "buckets"
    /\ \E variantKey \in CopyVariantKeys :
          /\ Len(ObjGetOr(builder.variantClassNames, variantKey, <<>>)) < MaxBucketLen
          /\ builder' = addVariantClasses(builder, variantKey, << <<"q">> >>)
          /\ held' = AfterPush(builder', "variant", variantKey, "")
    /\ CopyFrame

ClearVariant ==
    /\ pc = "buckets"
    /\ \E variantKey \in CopyVariantKeys :
          /\ builder' = clearVariantClasses(builder, variantKey)
          /\ held' = AfterAssign("variant", variantKey, "")
    /\ CopyFrame

AddGlobalState ==
    /\ pc = "buckets"
    /\ \E state \in CopyStates :
          /\ Len(ObjGetOr(builder.globalStateClassNames, state, <<>>)) < MaxBucketLen
          /\ builder' = addGlobalStateClasses(builder, state, << <<"s">> >>)
          /\ held' = AfterPush(builder', "state", "", state)
    /\ CopyFrame

AddVariantState ==
    /\ pc = "buckets"
    /\ \E state \in CopyStates :
          /\ Len(VariantStateBucket(builder, "size", state)) < MaxBucketLen
          /\ builder' = addVariantStateClasses(builder, "size", state, << <<"r">> >>)
          /\ held' = AfterPush(builder', "variantState", "size", state)
    /\ CopyFrame

GetBase ==
    /\ pc = "buckets"
    /\ held' = <<HeldArray("getBaseClasses", "base", "", "", getBaseClasses(builder))>>
    /\ UNCHANGED builder
    /\ CopyFrame

\* the caller takes one of the arrays of the returned map
GetVariantClassMap ==
    /\ pc = "buckets"
    /\ LET map == getVariantClassMap(builder)
       IN  \E i \in 1..Len(map) :
              held' = <<HeldArray("getVariantClassMap", "variant", map[i][1], "",
                                  map[i][2])>>
    /\ UNCHANGED builder
    /\ CopyFrame

GetGlobalState ==
    /\ pc = "buckets"
    /\ \E state \in CopyStates :
          held' = <<HeldArray("getGlobalStateClassesFor", "state", "", state,
                              getGlobalStateClassesFor(builder, state))>>
    /\ UNCHANGED builder
    /\ CopyFrame

GetVariantState ==
    /\ pc = "buckets"
    /\ \E state \in CopyStates :
          held' = <<HeldArray("getVariantStateClasses", "variantState", "size", state,
                              getVariantStateClasses(builder, "size", state))>>
    /\ UNCHANGED builder
    /\ CopyFrame

\* the caller writes into a returned array: push('m'), or length = 0
MutatedItems(items) ==
    {Append(items, <<"m">>)} \cup (IF items = <<>> THEN {} ELSE {<<>>})

MutateReturned ==
    /\ pc = "buckets"
    /\ \E i \in 1..Len(held) :
          /\ ~held[i].mutated
          /\ \E items \in MutatedItems(held[i].items) :
                /\ builder' = IF held[i].isBucket
                              THEN WriteBucketOf(builder, held[i], items)
                              ELSE builder
                /\ held' = [j \in 1..Len(held) |->
                              IF j = i
                              THEN [held[j] EXCEPT !.items = items, !.mutated = TRUE]
                              ELSE IF held[i].isBucket /\ held[j].isBucket
                                      /\ SameBucket(held[i], held[j])
                                   THEN [held[j] EXCEPT !.items = items]
                                   ELSE held[j]]
    /\ CopyFrame

NextCopy ==
    \/ AddBase
    \/ ClearBase
    \/ AddVariant
    \/ ClearVariant
    \/ AddGlobalState
    \/ AddVariantState
    \/ GetBase
    \/ GetVariantClassMap
    \/ GetGlobalState
    \/ GetVariantState
    \/ MutateReturned

SpecCopy == InitCopy /\ [][NextCopy]_vars

\* what the four getters and build() give for the builder as it is
BucketReads ==
    <<builder.baseClassNames, builder.variantClassNames, builder.variantStateClassNames,
      builder.globalStateClassNames,
      getBaseClasses(builder).items,
      [i \in 1..Len(getVariantClassMap(builder)) |->
          <<getVariantClassMap(builder)[i][1], getVariantClassMap(builder)[i][2].items>>],
      [st \in CopyStates |-> getGlobalStateClassesFor(builder, st).items],
      [st \in CopyStates |-> getVariantStateClasses(builder, "size", st).items],
      BuildFinalList(builder)>>

\* C20: a write into an array that getBaseClasses, getVariantClassMap,
\* getGlobalStateClassesFor or getVariantStateClasses returned changes no
\* bucket, and no result of a later read or of build()
C20_DefensiveCopies == [][MutateReturned => BucketReads' = BucketReads]_vars

\* C20 witness: the caller has written into the array getVariantClassMap
\* returned for a non-empty bucket, and the array now differs from the bucket
C20_Witness ==
    \E i \in 1..Len(held) :
       /\ held[i].mutated
       /\ held[i].from = "getVariantClassMap"
       /\ BucketOf(builder, held[i]) # <<>>
       /\ held[i].items # BucketOf(builder, held[i])

(***************************************************************************)
(* Claims about errors thrown during build().                              *)
(***************************************************************************)
\* the step of build() that ran a function that throws
Throwing(e) ==
    \/ e.ev = "apply" /\ e.id = "core-throws"
    \/ e.ev \in {"postCoreCallback", "finalBuildCallback"} /\ e.id = "throwMark"

\* C21: when a plugin's apply or a deferred callback throws, build() and
\* the resolver end with that same error, nothing of build() runs after
\* the function that threw, and no class string is returned
C21_ThrowPropagates ==
    LET L == BuildLog
    IN  /\ \A i \in 1..Len(L) :
              Throwing(L[i]) => /\ i = Len(L)
                                /\ pc = "threw"
                                /\ thrown = PlainError("boom")
        /\ pc = "threw" => /\ thrown # NoError
                           /\ L # <<>>
                           /\ L[Len(L)].ev # "concat"
                           /\ finalList = <<>>
                           /\ classString = <<>>

\* C21 witness: a post-core callback threw while another post-core
\* callback, a final-build callback and an 'after' plugin were still to run
C21_Witness ==
    /\ pc = "threw"
    /\ thrown = PlainError("boom")
    /\ log[Len(log)].ev = "postCoreCallback"
    /\ log[Len(log)].id = "throwMark"
    /\ Len(builder.postCoreCallbacks) > idx
    /\ builder.finalBuildCallbacks # <<>>
    /\ \E j \in 1..Len(builder.allPlugins) : builder.allPlugins[j].stage = "after"

\* C21 second witness: a plugin's apply threw in the 'core' stage
C21_WitnessApply ==
    /\ pc = "threw"
    /\ log[Len(log)].ev = "apply"
    /\ log[Len(log)].id = "core-throws"
    /\ builder.postCoreCallbacks # <<>>

(***************************************************************************)
(* Claims about the README's advanced example.                             *)
(***************************************************************************)
\* usage A: myArto({ variants: { intent: 'info', size: 'sm' } })
UsageA ==
    /\ config.className = ReadmeConfig.className
    /\ config.rules = ReadmeConfig.rules
    /\ options = [variants |-> << <<"intent", "info">>, <<"size", "sm">> >>,
                  states |-> <<>>]
    /\ plugins = <<>>

\* C22 (as claimed): usage A of the README's advanced example returns
\* 'base rule-class intent-info size-sm'
C22_ReadmeUsageA ==
    (UsageA /\ pc = "returned") =>
        classString = <<"base", " ", "rule-class", " ", "intent-info", " ", "size-sm">>

(***************************************************************************)
(* Claims about the place of the rules among the built-in plugins.         *)
(***************************************************************************)
\* a resolution with the built-in plugins only
BuiltInsOnly == plugins = <<>> /\ pluginHub = <<>>

\* the built-in plugin with this id has been applied
Applied(id) == \E i \in 1..Len(log) : log[i].ev = "apply" /\ log[i].id = id

\* the i-th rule applies and has a remove part
Removes(i) == Applies(i) /\ Truthy(config.rules.v[i].remove)

\* C23: with the built-in plugins only, the rules plugin is applied after
\* the base, variants and states plugins, so what a matching rule removes
\* (the base classes of config.className, the buckets of the named variant
\* keys, the global buckets of the named states) is gone after the rules
\* and from the list build() returns
C23_RulesAfterBuiltIns ==
    (BuiltInsOnly /\ Applied(RulesPlugin(3).id) /\ pc # "threw") =>
       /\ Truthy(config.className) => Applied(BaseClassNamePlugin.id)
       /\ Truthy(config.variants) => Applied(VariantsPlugin.id)
       /\ Truthy(config.states) => Applied(StatesPlugin.id)
       /\ BuildLog[Len(BuildLog)].ev = "apply" =>
             BuildLog[Len(BuildLog)].id = RulesPlugin(3).id
       /\ \A i \in 1..Len(config.rules.v) :
             Removes(i) =>
                LET remove == config.rules.v[i].remove.v
                IN  /\ remove.base =>
                          /\ \A t \in Range(SplitWhitespace(config.className.v)) :
                                t \notin Range(builder.baseClassNames)
                          /\ pc = "returned" =>
                                \A t \in Range(SplitWhitespace(config.className.v)) :
                                   t \notin Range(finalList)
                    /\ \A key \in Range(remove.variants) :
                          ObjGetOr(builder.variantClassNames, key, <<>>) = <<>>
                    /\ remove.statesScope # "variant" =>
                          \A st \in Range(remove.states) :
                             ObjGetOr(builder.globalStateClassNames, st, <<>>) = <<>>

\* C23 witness: size 'lg' and color 'red' selected, hovered active: the
\* variants and states plugins have run, the rule that removes the color
\* classes and the global hovered classes has applied, and the call has
\* returned without the class of 'red' and the class of hovered
C23_Witness ==
    /\ pc = "returned"
    /\ BuiltInsOnly
    /\ config = RuleConfigPool[4]
    /\ ObjGetOr(builder.selectedVariants, "color", NullValue) = "red"
    /\ "hovered" \in Range(builder.activeStates)
    /\ Removes(4)
    /\ Applied(VariantsPlugin.id)
    /\ Applied(StatesPlugin.id)
    /\ ObjGetOr(builder.variantClassNames, "size", <<>>) = << <<"l">> >>
    /\ ObjGetOr(builder.variantClassNames, "color", <<"none">>) = <<>>
    /\ ObjGetOr(builder.globalStateClassNames, "hovered", <<"none">>) = <<>>
    /\ <<"r">> \notin Range(finalList)
    /\ <<"h">> \notin Range(finalList)

(***************************************************************************)
(* Claims about plugins of equal stage and order.                          *)
(***************************************************************************)
\* the list arto() hands to the builder: local, registered, built-in
Supplied == plugins \o pluginHub \o InternalPlugins(config)

\* the position of the plugin `id` in that list
SuppliedAt(id) == CHOOSE k \in 1..Len(Supplied) : Supplied[k].id = id

\* C24: two plugins of equal stage and equal order are applied in the order
\* in which the builder received them: local plugins in array order, then
\* the plugins of the registry in registration order, then the built-ins
\* base, variants, states, rules
C24_StableSort ==
    LET L == BuildLog
    IN  \A i, j \in 1..Len(L) :
           (/\ i < j
            /\ L[i].ev = "apply"
            /\ L[j].ev = "apply"
            /\ L[i].stage = L[j].stage
            /\ L[i].order = L[j].order)
           => SuppliedAt(L[i].id) < SuppliedAt(L[j].id)

\* C24 witness: local plugins tie-b, tie-a, registered plugins tie-d, tie-c,
\* all of stage 'core' and order 0 like the base plugin: the base bucket
\* received their classes in that order, then the class of the configuration
C24_Witness ==
    /\ pc = "returned"
    /\ [i \in 1..Len(plugins) |-> plugins[i].id] = <<"tie-b", "tie-a">>
    /\ [i \in 1..Len(pluginHub) |-> pluginHub[i].id] = <<"tie-d", "tie-c">>
    /\ config.className = ReadmeConfig.className
    /\ Len(builder.baseClassNames) >= 5
    /\ SubSeq(builder.baseClassNames, 1, 5)
          = << <<"tb">>, <<"ta">>, <<"td">>, <<"tc">>, <<"base">> >>
    /\ Applied(VariantsPlugin.id)
    /\ Applied(StatesPlugin.id)

(***************************************************************************)
(* Claims about the deferred callbacks.                                    *)
(***************************************************************************)
\* the callbacks a plugin's apply registers with `method`, in order
RegisteredBy(p, method) ==
    LET calls == SelectSeq(p.sync, LAMBDA c : c.method = method)
    IN  [i \in 1..Len(calls) |-> calls[i].key]

\* the callbacks the plugins of these stages register with `method`, in
\* the order of their application
Registered(method, stages) ==
    Flatten([k \in 1..Len(builder.allPlugins) |->
                IF builder.allPlugins[k].stage \in stages
                THEN RegisteredBy(builder.allPlugins[k], method)
                ELSE <<>>])

\* the callbacks build() has invoked in this flush, in order
Invoked(ev) ==
    LET events == SelectSeq(BuildLog, LAMBDA e : e.ev = ev)
    IN  [i \in 1..Len(events) |-> events[i].id]

\* C25: when build() has returned, the post-core callbacks registered in
\* the 'before' and 'core' stages and the final-build callbacks registered
\* in any stage have each been invoked once, in registration order, the
\* former between the 'core' and 'after' plugins, the latter after the
\* 'after' plugins
C25_CallbacksFlushedOnce ==
    LET L == BuildLog
    IN  /\ pc \in {"after", "final", "concat", "returned"} =>
              Invoked("postCoreCallback") = Registered("addPostCoreCallback",
                                                       {"before", "core"})
        /\ pc \in {"concat", "returned"} =>
              Invoked("finalBuildCallback") = Registered("addFinalBuildCallback", Stages)
        /\ \A i, j \in 1..Len(L) :
              (L[i].ev = "postCoreCallback" /\ L[j].ev = "apply") =>
                  (j < i <=> L[j].stage \in {"before", "core"})
        /\ \A i, j \in 1..Len(L) :
              (L[i].ev = "finalBuildCallback" /\ L[j].ev = "apply") => j < i

\* C25 witness: build() has returned after a 'before' plugin, a 'core'
\* plugin and two 'after' plugins registered callbacks: two post-core and
\* four final-build callbacks ran in registration order; the post-core
\* callback registered in the 'after' stage did not
C25_Witness ==
    /\ pc = "returned"
    /\ Invoked("postCoreCallback") = <<"earlyMark", "postCoreMark">>
    /\ Invoked("finalBuildCallback") = <<"earlyMark", "finalMark", "finalMark", "lateMark">>
    /\ builder.postCoreCallbacks = <<"earlyMark", "postCoreMark", "lateMark">>

(***************************************************************************)
(* Claims about the states declared under a variant value.                 *)
(***************************************************************************)
\* this step is VariantsPlugin.apply returning normally
VariantsApplied ==
    /\ Len(log') = Len(log) + 1
    /\ log'[Len(log')].ev = "apply"
    /\ log'[Len(log')].id = VariantsPlugin.id
    /\ pc' # "threw"

\* the states declared under the value selected for the i-th variant key,
\* <<>> when nothing is selected or the value has no states
StatesUnder(i) ==
    LET variantKey == config.variants.v[i][1]
        userChosenValue == ObjGetOr(builder.selectedVariants, variantKey, NullValue)
        variantConfig == IF userChosenValue = NullValue THEN Null
                         ELSE Lookup(config.variants.v[i][2].v, userChosenValue)
    IN  IF variantConfig.k = "variantConfig" /\ Truthy(variantConfig.v[2])
        THEN variantConfig.v[2].v
        ELSE <<>>

\* C26: when the variants plugin is applied, for each state declared under
\* a selected variant value: a plain class expression is appended to the
\* (variant, state) bucket; a descriptor whose dependency holds replaces the
\* bucket by its own classes; a descriptor whose dependency does not hold
\* leaves the bucket as it was (and the plugin does not throw for it)
C26_VariantStates ==
    [][VariantsApplied =>
          \A i \in 1..Len(config.variants.v) :
             \A n \in 1..Len(StatesUnder(i)) :
                LET variantKey == config.variants.v[i][1]
                    stateName == StatesUnder(i)[n][1]
                    stateInput == StatesUnder(i)[n][2]
                    before == VariantStateBucket(builder, variantKey, stateName)
                    after == VariantStateBucket(builder', variantKey, stateName)
                IN  IF stateInput.k = "stateConfig"
                    THEN IF DependencyHolds(stateInput)
                         THEN after = StateTokens(stateInput)
                         ELSE after = before
                    ELSE after = before \o StateTokens(stateInput)]_vars

\* C26 witness: size 'lg' selected, hovered and disabled active, a 'before'
\* plugin had put 'ph' and 'pd' in the buckets: under hovered (plain 'h')
\* the bucket is ph, h; under disabled (descriptor 'e', depends on hovered)
\* the bucket is e alone
C26_Witness ==
    /\ pc = "core"
    /\ log # <<>>
    /\ log[Len(log)].id = VariantsPlugin.id
    /\ VariantStateBucket(builder, "size", "hovered") = << <<"ph">>, <<"h">> >>
    /\ VariantStateBucket(builder, "size", "disabled") = << <<"e">> >>

\* C26, the dependency not holding: disabled active without hovered, the
\* bucket under disabled still holds 'pd' alone after the variants plugin
C26_WitnessUnmet ==
    /\ pc = "core"
    /\ log # <<>>
    /\ log[Len(log)].id = VariantsPlugin.id
    /\ ObjGetOr(builder.selectedVariants, "size", NullValue) = "lg"
    /\ "hovered" \notin Range(builder.activeStates)
    /\ VariantStateBucket(builder, "size", "hovered") = << <<"ph">>, <<"h">> >>
    /\ VariantStateBucket(builder, "size", "disabled") = << <<"pd">> >>

(***************************************************************************)
(* Claims about the scope of a rule's state removal.                       *)
(***************************************************************************)
\* this step is RulesPlugin.apply returning normally
RulesApplied ==
    /\ Len(log') = Len(log) + 1
    /\ log'[Len(log')].ev = "apply"
    /\ log'[Len(log')].id = RulesPlugin(3).id
    /\ pc' # "threw"

\* a matching rule removes the state st with one of these scopes
RemovedIn(st, scopes) ==
    \E i \in 1..Len(config.rules.v) :
       /\ Removes(i)
       /\ st \in Range(config.rules.v[i].remove.v.states)
       /\ config.rules.v[i].remove.v.statesScope \in scopes

\* the states and variant keys that name a bucket of the builder b
BucketStates(b) ==
    Range(ObjKeys(b.globalStateClassNames))
       \cup UNION {Range(ObjKeys(b.variantStateClassNames[k][2])) :
                      k \in 1..Len(b.variantStateClassNames)}

\* C27: when the rules are applied, the global bucket of a state is emptied
\* if a matching rule removes the state with scope 'global', 'all' or none,
\* and is unchanged otherwise; the (variant, state) bucket of a state is
\* emptied if a matching rule removes the state with scope 'variant', 'all'
\* or none and the variant key is in the selection, and is unchanged
\* otherwise
C27_StatesScope ==
    [][RulesApplied =>
          \A st \in BucketStates(builder) \cup BucketStates(builder') :
             /\ ObjGetOr(builder'.globalStateClassNames, st, <<>>)
                   = IF RemovedIn(st, {"global", "all", Undefined}) THEN <<>>
                     ELSE ObjGetOr(builder.globalStateClassNames, st, <<>>)
             /\ \A key \in Range(ObjKeys(builder.variantStateClassNames))
                              \cup Range(ObjKeys(builder'.variantStateClassNames)) :
                   VariantStateBucket(builder', key, st)
                      = IF /\ RemovedIn(st, {"variant", "all", Undefined})
                           /\ ObjHas(builder.selectedVariants, key)
                        THEN <<>>
                        ELSE VariantStateBucket(builder, key, st)]_vars

\* C27 witness: size and color 'red' selected, hovered alone active; the
\* rule removing hovered with scope 'global' matched, the rule removing
\* disabled with no scope did not: the global bucket of hovered is empty,
\* the (variant, state) buckets of hovered are as the 'before' plugin left them
C27_Witness ==
    /\ AfterRules
    /\ config = RuleConfigPool[4]
    /\ plugins = <<BeforeVariantStates>>
    /\ Removes(4)
    /\ ~Removes(5)
    /\ ~Removes(7)
    /\ Applied(StatesPlugin.id)
    /\ ObjGetOr(builder.globalStateClassNames, "hovered", <<"none">>) = <<>>
    /\ VariantStateBucket(builder, "size", "hovered") = << <<"ph">> >>
    /\ VariantStateBucket(builder, "size", "disabled") = << <<"pd">> >>

\* C27, scope 'variant': the rule removing hovered with scope 'variant'
\* matched alone: the buckets (size, hovered) and (color, hovered) of the
\* selected keys are empty, the bucket (intent, hovered) of a key that is
\* not selected and the global bucket of hovered are unchanged
C27_WitnessVariant ==
    /\ AfterRules
    /\ config = RuleConfigPool[4]
    /\ plugins = <<BeforeVariantStates>>
    /\ Removes(7)
    /\ ~Removes(4)
    /\ ~Removes(5)
    /\ ObjHas(builder.selectedVariants, "color")
    /\ ObjGetOr(builder.globalStateClassNames, "hovered", <<>>) = << <<"h">> >>
    /\ VariantStateBucket(builder, "size", "hovered") = <<>>
    /\ VariantStateBucket(builder, "color", "hovered") = <<>>
    /\ VariantStateBucket(builder, "intent", "hovered") = << <<"pi">> >>
    /\ VariantStateBucket(builder, "size", "disabled") = << <<"pd">> >>

\* C27, no scope: the rule removing disabled without statesScope matched:
\* both the global and the (size, disabled) bucket are empty
C27_WitnessAll ==
    /\ AfterRules
    /\ config = RuleConfigPool[4]
    /\ plugins = <<BeforeVariantStates>>
    /\ Removes(5)
    /\ ObjGetOr(builder.globalStateClassNames, "disabled", <<"none">>) = <<>>
    /\ VariantStateBucket(builder, "size", "disabled") = <<>>
    /\ VariantStateBucket(builder, "size", "hovered") = << <<"ph">> >>

(***************************************************************************)
(* Claims about a rule's string operator.                                  *)
(***************************************************************************)
\* the n-th variant condition of `when` matches the selection
VariantCondition(when, n) ==
    LET userValue == ObjGetOr(builder.selectedVariants, when.variants[n][1], NullValue)
    IN  userValue # NullValue /\ userValue \in Range(when.variants[n][2])

\* the list the claim names: the variant conditions in key order, then
\* the state conditions in the order of when.states
ConditionList(when) ==
    [n \in 1..Len(when.variants) |-> VariantCondition(when, n)]
       \o [n \in 1..Len(when.states) |-> when.states[n] \in Range(builder.activeStates)]

\* what the claim states for one variant condition v and one state condition s
PairMeaning(operator, v, s) ==
    CASE operator = "AND" -> v /\ s
      [] operator = "OR" -> v \/ s
      [] operator = "NOT" -> ~v /\ ~s
      [] operator = "XOR" -> v # s
      [] operator = "IMPLIES" -> ~v \/ s

\* C28: a rule with a string operator applies exactly when
\* evaluateSimpleLogic holds of the variant-match booleans in key order
\* followed by the state-match booleans; with one variant condition and one
\* state condition 'IMPLIES' is (no match) or (state active), 'XOR' is
\* exactly one of the two, 'NOT' is neither
C28_StringOperator ==
    (AfterRules /\ NoBaseRemoval) =>
       \A i \in 1..Len(config.rules.v) :
          LET rule == config.rules.v[i]
              marked == rule.add.v \in Range(builder.baseClassNames)
          IN  (rule.when.logic.k = "op" /\ Truthy(rule.add)) =>
                 /\ marked <=> evaluateSimpleLogic(ConditionList(rule.when), rule.when.logic.v)
                 /\ (Len(rule.when.variants) = 1 /\ Len(rule.when.states) = 1) =>
                       (marked <=> PairMeaning(rule.when.logic.v,
                                               ConditionList(rule.when)[1],
                                               ConditionList(rule.when)[2]))

\* C28 witness: color 'blue' selected (no match with 'red'), hovered not
\* active: the 'IMPLIES' rule and the 'NOT' rule have applied, the 'XOR'
\* rule has not
C28_Witness ==
    /\ AfterRules
    /\ config = RuleConfigPool[4]
    /\ ObjGetOr(builder.selectedVariants, "color", NullValue) = "blue"
    /\ "hovered" \notin Range(builder.activeStates)
    /\ <<"im">> \in Range(builder.baseClassNames)
    /\ <<"nt">> \in Range(builder.baseClassNames)
    /\ <<"xr">> \notin Range(builder.baseClassNames)

\* C28, the order of the list: color 'red' and size 'lg' selected, hovered
\* active: 'IMPLIES' over (color matches, size matches, hovered, disabled)
\* takes the two variant conditions and the rule has applied; with size
\* 'sm' it has not
C28_WitnessOrder ==
    /\ AfterRules
    /\ config = RuleConfigPool[4]
    /\ ObjGetOr(builder.selectedVariants, "color", NullValue) = "red"
    /\ ObjGetOr(builder.selectedVariants, "size", NullValue) = "lg"
    /\ <<"ii">> \in Range(builder.baseClassNames)
    /\ <<"im">> \notin Range(builder.baseClassNames)

(***************************************************************************)
(* Claims about the items the normalizer skips.                            *)
(***************************************************************************)
\* the item on top of the stack is one the claim names: null/undefined, a
\* value of unsupported type, a callback met again, or a callback that
\* returns a falsy value
SkippedItem ==
    /\ norm.status = "run"
    /\ norm.stack # <<>>
    /\ LET item == norm.stack[Len(norm.stack)]
       IN  \/ item.k = "null"
           \/ item.k \in {"num", "object"}
           \/ item.k = "fn" /\ item.v \in norm.seenCallbacks
           \/ /\ item.k = "fn"
              /\ callbackTable[item.v].k # "throw"
              /\ ~Truthy(callbackTable[item.v])

\* an item that is skipped wherever it stands: null/undefined, a number, a
\* plain object, a callback returning a falsy value
AlwaysSkipped(e) ==
    \/ e.k \in {"null", "num", "object"}
    \/ e.k = "fn" /\ callbackTable[e.v].k # "throw" /\ ~Truthy(callbackTable[e.v])

RECURSIVE WithoutSkipped(_)
\* the expression with those items taken out of every array
WithoutSkipped(e) ==
    IF e.k # "arr" THEN e
    ELSE LET kept == SelectSeq(e.v, LAMBDA x : ~AlwaysSkipped(x))
         IN  Arr([i \in 1..Len(kept) |-> WithoutSkipped(kept[i])])

\* C29: the iteration that meets a null/undefined item, a callback
\* returning a falsy value, a callback met again or a value of unsupported
\* type adds no token, raises nothing and leaves the rest of the stack to
\* be read; and a call that returns gives the tokens the call on the
\* expression without the null, number, plain-object and falsy-callback
\* items gives, in the same order
C29_SkippedItems ==
    /\ [][SkippedItem =>
            /\ norm'.result = norm.result
            /\ norm'.stack = SubSeq(norm.stack, 1, Len(norm.stack) - 1)
            /\ norm'.status = "run"
            /\ norm'.error = NoError]_vars
    /\ []((pass = 1 /\ norm.status = "done") =>
            LET rest == IF AlwaysSkipped(classInput) THEN Arr(<<>>)
                        ELSE WithoutSkipped(classInput)
            IN  /\ normalizeClassName(rest, callbackTable).ok
                /\ norm.returned = normalizeClassName(rest, callbackTable).value)

\* ['a', [null, 5], f] with f returning ['b', g, 'a'] and g returning false
\* has returned [a, b] with one warning
C29_Witness ==
    /\ pass = 1
    /\ norm.status = "done"
    /\ classInput = Arr(<<Str(<<"a">>), Arr(<<Null, Num>>), Fn("f")>>)
    /\ callbackTable["f"] = Arr(<<Str(<<"b">>), Fn("g"), Str(<<"a">>)>>)
    /\ callbackTable["g"] = Falsy
    /\ norm.calls = <<"f", "g">>
    /\ norm.warnings = <<"unsupported">>
    /\ norm.returned = << <<"a">>, <<"b">> >>

\* [f, [f, 'b'], 'a'] with f returning [f]: f is met again twice, and b
\* and a are returned
C29_WitnessCyclic ==
    /\ pass = 1
    /\ norm.status = "done"
    /\ classInput = Arr(<<Fn("f"), Arr(<<Fn("f"), Str(<<"b">>)>>), Str(<<"a">>)>>)
    /\ callbackTable["f"] = Arr(<<Fn("f")>>)
    /\ norm.calls = <<"f">>
    /\ norm.warnings = <<"cyclic", "cyclic">>
    /\ norm.returned = << <<"b">>, <<"a">> >>

\* [{}, [5, 'a']]: the plain object and the number are passed over and a
\* is returned
C29_WitnessObject ==
    /\ pass = 1
    /\ norm.status = "done"
    /\ classInput = Arr(<<PlainObject, Arr(<<Num, Str(<<"a">>)>>)>>)
    /\ norm.warnings = <<"unsupported", "unsupported">>
    /\ norm.returned = << <<"a">> >>

(***************************************************************************)
(* SpecBuckets: a caller (a plugin or a callback) calls the add, replace   *)
(* and clear methods of a builder, one call per step; log holds the call   *)
(* just made and idx counts the calls.                                     *)
(***************************************************************************)
MaxCalls == 3

MutationVariantKeys == {"size", "color"}

MutationStates == {"hovered", "disabled"}

\* the class lists handed to add* and replace*
MutationClassNames == {<< <<"p">> >>, << <<"q">>, <<"p">> >>}

InitBuckets ==
    /\ config = ConfigPool[1]
    /\ options = [variants |-> << <<"size", "lg">> >>, states |-> << <<"hovered", TRUE>> >>]
    /\ plugins = <<>>
    /\ pluginHub = <<>>
    /\ builder = NewBuilder(ConfigPool[1], << <<"size", "lg">> >>, <<"hovered">>, <<>>)
    /\ idx = 1
    /\ finalList = <<>>
    /\ classString = <<>>
    /\ thrown = NoError
    /\ pending = <<>>
    /\ settled = <<>>
    /\ log = <<>>
    /\ pc = "mutate"
    /\ IdleHub
    /\ IdleCopy
    /\ IdleCalls
    /\ IdleNorm
    /\ IdleLogic

\* the bookkeeping of one call
Called(call) ==
    /\ pc = "mutate"
    /\ idx <= MaxCalls
    /\ idx' = idx + 1
    /\ log' = <<call>>
    /\ UNCHANGED <<config, options, plugins, pluginHub, pc, finalList, classString,
                   thrown, pending, settled>>
    /\ UNCHANGED <<normVars, logicVars, hubVars, copyVars, callVars>>

CallAddBaseClasses ==
    \E classNames \in MutationClassNames :
       /\ builder' = addBaseClasses(builder, classNames)
       /\ Called(Call("addBaseClasses", "", "", classNames))

CallClearBaseClasses ==
    /\ builder' = clearBaseClasses(builder)
    /\ Called(Call("clearBaseClasses", "", "", <<>>))

CallAddVariantClasses ==
    \E variantKey \in MutationVariantKeys, classNames \in MutationClassNames :
       /\ builder' = addVariantClasses(builder, variantKey, classNames)
       /\ Called(Call("addVariantClasses", variantKey, "", classNames))

CallReplaceVariantClasses ==
    \E variantKey \in MutationVariantKeys, classNames \in MutationClassNames :
       /\ builder' = replaceVariantClasses(builder, variantKey, classNames)
       /\ Called(Call("replaceVariantClasses", variantKey, "", classNames))

CallClearVariantClasses ==
    \E variantKey \in MutationVariantKeys :
       /\ builder' = clearVariantClasses(builder, variantKey)
       /\ Called(Call("clearVariantClasses", variantKey, "", <<>>))

CallAddGlobalStateClasses ==
    \E state \in MutationStates, classNames \in MutationClassNames :
       /\ builder' = addGlobalStateClasses(builder, state, classNames)
       /\ Called(Call("addGlobalStateClasses", "", state, classNames))

CallReplaceGlobalStateClasses ==
    \E state \in MutationStates, classNames \in MutationClassNames :
       /\ builder' = replaceGlobalStateClasses(builder, state, classNames)
       /\ Called(Call("replaceGlobalStateClasses", "", state, classNames))

CallClearGlobalStateClasses ==
    \E state \in MutationStates :
       /\ builder' = clearGlobalStateClasses(builder, state)
       /\ Called(Call("clearGlobalStateClasses", "", state, <<>>))

CallAddVariantStateClasses ==
    \E variantKey \in MutationVariantKeys, state \in MutationStates,
       classNames \in MutationClassNames :
       /\ builder' = addVariantStateClasses(builder, variantKey, state, classNames)
       /\ Called(Call("addVariantStateClasses", variantKey, state, classNames))

CallReplaceVariantStateClasses ==
    \E variantKey \in MutationVariantKeys, state \in MutationStates,
       classNames \in MutationClassNames :
       /\ builder' = replaceVariantStateClasses(builder, variantKey, state, classNames)
       /\ Called(Call("replaceVariantStateClasses", variantKey, state, classNames))

CallClearVariantStateClasses ==
    \E variantKey \in MutationVariantKeys, state \in MutationStates :
       /\ builder' = clearVariantStateClasses(builder, variantKey, state)
       /\ Called(Call("clearVariantStateClasses", variantKey, state, <<>>))

NextBuckets ==
    \/ CallAddBaseClasses
    \/ CallClearBaseClasses
    \/ CallAddVariantClasses
    \/ CallReplaceVariantClasses
    \/ CallClearVariantClasses
    \/ CallAddGlobalStateClasses
    \/ CallReplaceGlobalStateClasses
    \/ CallClearGlobalStateClasses
    \/ CallAddVariantStateClasses
    \/ CallReplaceVariantStateClasses
    \/ CallClearVariantStateClasses

SpecBuckets == InitBuckets /\ [][NextBuckets]_vars

(***************************************************************************)
(* Claims about the bucket mutations.                                      *)
(***************************************************************************)
\* a bucket's address: its kind and, where the kind has them, its variant
\* key and its state
Address(bucket, key, state) == [bucket |-> bucket, key |-> key, state |-> state]

Addresses ==
    {Address("base", "", "")}
       \cup {Address("variant", k, "") : k \in MutationVariantKeys}
       \cup {Address("state", "", st) : st \in MutationStates}
       \cup {Address("variantState", k, st) : k \in MutationVariantKeys, st \in MutationStates}

\* the bucket a call addresses
Target(call) ==
    CASE call.method \in {"addBaseClasses", "clearBaseClasses"} -> Address("base", "", "")
      [] call.method \in {"addVariantClasses", "replaceVariantClasses",
                          "clearVariantClasses"} -> Address("variant", call.key, "")
      [] call.method \in {"addGlobalStateClasses", "replaceGlobalStateClasses",
                          "clearGlobalStateClasses"} -> Address("state", "", call.state)
      [] OTHER -> Address("variantState", call.key, call.state)

\* what the claim gives for the addressed bucket, from what it held
Expected(call, tokens) ==
    CASE call.method \in {"addBaseClasses", "addVariantClasses", "addGlobalStateClasses",
                          "addVariantStateClasses"} -> tokens \o call.classNames
      [] call.method \in {"replaceVariantClasses", "replaceGlobalStateClasses",
                          "replaceVariantStateClasses"} -> call.classNames
      [] OTHER -> <<>>

\* the call just made
LastCall == log[1]

C30_WitnessClear ==
    /\ pc = "mutate"
    /\ log # <<>>
    /\ LastCall.method = "clearVariantStateClasses"
    /\ LastCall.key = "size"
    /\ LastCall.state = "hovered"
    /\ VariantStateBucket(builder, "size", "hovered") = <<>>
    /\ VariantStateBucket(builder, "size", "disabled") = << <<"q">>, <<"p">> >>

\* C30 witness: the variant bucket of color was just replaced while the
\* variant bucket of size and the base bucket hold tokens
C30_WitnessReplace ==
    /\ pc = "mutate"
    /\ log # <<>>
    /\ LastCall.method = "replaceVariantClasses"
    /\ LastCall.key = "color"
    /\ ObjGetOr(builder.variantClassNames, "color", <<>>) = << <<"p">> >>
    /\ ObjGetOr(builder.variantClassNames, "size", <<>>) = << <<"q">>, <<"p">> >>
    /\ builder.baseClassNames # <<>>

(***************************************************************************)
(* SpecTwice: the resolver is called, returns or throws, and is called a   *)
(* second time; asynchronous applies of the first call may complete        *)
(* before or after the second call.                                        *)
(***************************************************************************)
\* a call that is over: its options, its outcome, its builder and its
\* asynchronous applies not yet completed
EarlierCall ==
    [options |-> options, outcome |-> pc, classString |-> classString,
     thrown |-> thrown, builder |-> builder, pending |-> pending]

NoOptions == [variants |-> <<>>, states |-> <<>>]

TwicePluginLists ==
    {<<>>, <<PluginPool[5]>>, <<PluginPool[2], PluginPool[5]>>, <<PluginPool[3]>>,
     <<PluginPool[1], PluginPool[4]>>, <<ThrowingPlugins[1]>>}

InitTwice ==
    /\ config \in {ConfigPool[2], ConfigPool[3]}
    /\ \E i \in 1..Len(VariantOptionsPool), j \in 1..Len(StateOptionsPool) :
          options = [variants |-> VariantOptionsPool[i], states |-> StateOptionsPool[j]]
    /\ plugins \in TwicePluginLists
    /\ pluginHub \in {<<>>, <<GlobalPlugin>>, <<HubPool[3]>>}
    /\ IdleResolveState
    /\ pc = "call"
    /\ IdleHub
    /\ IdleCopy
    /\ IdleCalls
    /\ IdleNorm
    /\ IdleLogic

\* the caller calls the resolver again, with the same options or with none
CallAgain ==
    /\ pc \in {"returned", "threw"}
    /\ previous = <<>>
    /\ previous' = <<EarlierCall>>
    /\ options' \in {options, NoOptions}
    /\ builder' = NewBuilder(ConfigPool[1], <<>>, <<>>, <<>>)
    /\ pc' = "call"
    /\ idx' = 1
    /\ finalList' = <<>>
    /\ classString' = <<>>
    /\ thrown' = NoError
    /\ pending' = <<>>
    /\ settled' = <<>>
    /\ log' = <<>>
    /\ UNCHANGED <<config, plugins, pluginHub>>
    /\ UNCHANGED <<normVars, logicVars, hubVars, copyVars>>

\* the rest of an asynchronous apply of the earlier call: it holds the
\* builder of that call.  No call of the resolver is running then
SettleEarlier ==
    /\ pc \in {"call", "returned", "threw"}
    /\ previous # <<>>
    /\ \E i \in 1..Len(previous[1].pending) :
          previous' = <<[previous[1] EXCEPT
                            !.builder = ApplyCalls(@, previous[1].pending[i].deferred),
                            !.pending = SubSeq(@, 1, i - 1) \o SubSeq(@, i + 1, Len(@))]>>
    /\ UNCHANGED <<normVars, logicVars, resolveVars, hubVars, copyVars>>

NextTwice ==
    \/ Next
    \/ CallAgain
    \/ SettleEarlier

SpecTwice == InitTwice /\ [][NextTwice]_vars

(***************************************************************************)
(* Claims about two calls of one resolver.                                 *)
(***************************************************************************)
\* the buckets of a builder
Buckets(b) ==
    <<b.baseClassNames, b.variantClassNames, b.variantStateClassNames,
      b.globalStateClassNames>>

\* C31: a second call of the resolver with the options of the first ends
\* as the first did, with the same string or the same error; the builder
\* of every second call starts with empty buckets and empty callback
\* registries; and no step of the second call changes the builder of the
\* first, nor does a late completion of the first change the second's;
\* and no step changes the configuration the resolver was created with
C31_Stateless ==
    /\ [][config' = config]_vars
    /\ []((previous # <<>> /\ pc \in {"returned", "threw"}
              /\ options = previous[1].options) =>
            /\ pc = previous[1].outcome
            /\ classString = previous[1].classString
            /\ thrown = previous[1].thrown)
    /\ []((previous # <<>> /\ pc = "before" /\ idx = 1 /\ log = <<>>) =>
            /\ Buckets(builder) = <<<<>>, <<>>, <<>>, <<>>>>
            /\ builder.postCoreCallbacks = <<>>
            /\ builder.finalBuildCallbacks = <<>>)
    /\ [][previous # <<>> =>
            \/ previous' = previous
            \/ builder' = builder /\ pending' = pending]_vars

\* C31 witness: both calls returned the same non-empty string, tokens of
\* plugins included, and the asynchronous apply of the first call completed
\* in between, putting z into the first call's builder only
C31_Witness ==
    /\ previous # <<>>
    /\ pc = "returned"
    /\ options = previous[1].options
    /\ options.states # <<>>
    /\ classString = previous[1].classString
    /\ <<"y">> \in Range(finalList)
    /\ <<"z">> \in Range(previous[1].builder.baseClassNames)
    /\ <<"z">> \notin Range(builder.baseClassNames)
    /\ pending # <<>>

\* C31 witness: the first call had hovered active and returned its tokens,
\* the second call without options returned none of them
C31_WitnessOtherOptions ==
    /\ previous # <<>>
    /\ pc = "returned"
    /\ previous[1].options.states = << <<"hovered", TRUE>> >>
    /\ options = NoOptions
    /\ previous[1].builder.globalStateClassNames # <<>>
    /\ builder.globalStateClassNames = <<>>
    /\ classString # previous[1].classString

(***************************************************************************)
(* Claims about the states nested under a variant value.                   *)
(***************************************************************************)
\* the states declared under the m-th value of the i-th variant key
NestedStates(i, m) ==
    LET variantConfig == config.variants.v[i][2].v[m][2]
    IN  IF variantConfig.k = "variantConfig" /\ Truthy(variantConfig.v[2])
        THEN variantConfig.v[2].v
        ELSE <<>>

\* C32: with the built-in plugins only, a token declared under
\* variants[k][v].states[s] is in the returned list only if v is the value
\* selected for k, s is active and, for a descriptor, its dependency holds
C32_NestedStates ==
    (JustReturned /\ BuiltInsOnly /\ Truthy(config.variants)) =>
       \A i \in 1..Len(config.variants.v) :
          \A m \in 1..Len(config.variants.v[i][2].v) :
             \A n \in 1..Len(NestedStates(i, m)) :
                LET variantKey == config.variants.v[i][1]
                    value == config.variants.v[i][2].v[m][1]
                    stateName == NestedStates(i, m)[n][1]
                    stateInput == NestedStates(i, m)[n][2]
                IN  \A t \in Range(StateTokens(stateInput)) :
                       t \in Range(finalList) =>
                          /\ ObjGetOr(builder.selectedVariants, variantKey, NullValue) = value
                          /\ stateName \in Range(builder.activeStates)
                          /\ DependencyHolds(stateInput)

\* C32 witness: size 'lg' selected with hovered and disabled active: h
\* (plain) and e (descriptor depending on hovered) are in the result
C32_Witness ==
    /\ JustReturned
    /\ BuiltInsOnly
    /\ config = ConfigPool[3]
    /\ ObjGetOr(builder.selectedVariants, "size", NullValue) = "lg"
    /\ Range(builder.activeStates) = {"hovered", "disabled"}
    /\ <<"h">> \in Range(finalList)
    /\ <<"e">> \in Range(finalList)

\* C32 witness: size 'sm' selected with hovered active: the states nested
\* under 'lg' contribute nothing
C32_WitnessNotSelected ==
    /\ JustReturned
    /\ BuiltInsOnly
    /\ config = ConfigPool[3]
    /\ ObjGetOr(builder.selectedVariants, "size", NullValue) = "sm"
    /\ "hovered" \in Range(builder.activeStates)
    /\ <<"h">> \notin Range(finalList)
    /\ <<"s">> \in Range(finalList)

\* C32 witness: size 'lg' selected, disabled active and hovered not: the
\* bucket of (size, hovered) holds h, and neither h nor e is in the result
C32_WitnessNotActive ==
    /\ JustReturned
    /\ BuiltInsOnly
    /\ config = ConfigPool[3]
    /\ ObjGetOr(builder.selectedVariants, "size", NullValue) = "lg"
    /\ Range(builder.activeStates) = {"disabled"}
    /\ VariantStateBucket(builder, "size", "hovered") = << <<"h">> >>
    /\ <<"h">> \notin Range(finalList)
    /\ <<"e">> \notin Range(finalList)

(***************************************************************************)
(* Claims about a declared variant value.                                  *)
(***************************************************************************)
\* C33 (as claimed): the invalid-variant-value error of a key is raised
\* only when the value selected for the key is not declared for it,
\* whatever the class expression a declared value is mapped to
C33_DeclaredValueAccepted ==
    (pc = "threw" /\ Truthy(config.variants)) =>
       \A i \in 1..Len(config.variants.v) :
          thrown = InvalidValueError(i) => InvalidSelection(i)

(***************************************************************************)
(* Claims about the invocations of callbacks.                              *)
(***************************************************************************)
\* C34: within one call of normalizeClassName each callback is invoked at
\* most once, however often it occurs in the expression or is returned by
\* a callback
C34_InvokedOnce ==
    \A c \in Callbacks : Cardinality({i \in 1..Len(norm.calls) : norm.calls[i] = c}) <= 1

\* C34 witness: [f, [g, f]] with f returning 'a b' and g returning f: f
\* was met three times and invoked once, g once
C34_Witness ==
    /\ pass = 1
    /\ norm.status = "done"
    /\ classInput = Arr(<<Fn("f"), Arr(<<Fn("g"), Fn("f")>>)>>)
    /\ callbackTable["f"] = Str(<<"a", " ", "b">>)
    /\ callbackTable["g"] = Fn("f")
    /\ norm.calls = <<"f", "g">>
    /\ norm.warnings = <<"cyclic", "cyclic">>
    /\ norm.returned = << <<"a">>, <<"b">> >>

(***************************************************************************)
(* Claims about post-core callbacks registered late.                       *)
(***************************************************************************)
\* the post-core flush of this build() is over
FlushOver == pc \in {"after", "final", "concat", "returned"}

\* the post-core callbacks registered by 'after' plugins and by final-build
\* callbacks
RegisteredLate == {"lateMark", "neverMark"}

\* C35: once the post-core flush is over no post-core callback is invoked
\* any more in that build(), so that a post-core callback registered by an
\* 'after' plugin or by a final-build callback stays in the registry
\* without ever being invoked
C35_LateNeverInvoked ==
    /\ [][FlushOver => Invoked("postCoreCallback")' = Invoked("postCoreCallback")]_vars
    /\ [](\A i \in 1..Len(log) :
             log[i].ev = "postCoreCallback" => log[i].id \notin RegisteredLate)

\* C35 witness: build() has returned; an 'after' plugin registered
\* lateMark and the final-build callback registerLate registered neverMark,
\* both are in the registry behind earlyMark, and earlyMark alone was
\* invoked
C35_Witness ==
    /\ JustReturned
    /\ builder.postCoreCallbacks = <<"earlyMark", "lateMark", "neverMark">>
    /\ Invoked("postCoreCallback") = <<"earlyMark">>
    /\ "registerLate" \in Range(Invoked("finalBuildCallback"))
    /\ <<"never">> \notin Range(finalList)

(***************************************************************************)
(* Claims about getAllClasses.                                             *)
(***************************************************************************)
\* two lists hold the same tokens with the same multiplicities
SameBag(s, t) == \A x \in Range(s) \cup Range(t) : Count(s, x) = Count(t, x)

\* C36: with the built-in plugins only, what getAllClasses() returns once
\* the plugins and callbacks have run holds the same tokens with the same
\* multiplicities as the list build() returns
C36_GetAllClasses ==
    BuiltInsOnly =>
       /\ pc \in {"final", "concat"} =>
             SameBag(getAllClasses(builder), BuildFinalList(builder))
       /\ JustReturned => SameBag(getAllClasses(builder), finalList)

\* C36 witness: size 'lg' with hovered and disabled active: build()
\* returned a, a, l, h, e, d and getAllClasses gives the same tokens with
\* the global class before the nested ones
C36_Witness ==
    /\ JustReturned
    /\ BuiltInsOnly
    /\ finalList = << <<"a">>, <<"a">>, <<"l">>, <<"h">>, <<"e">>, <<"d">> >>
    /\ getAllClasses(builder) = << <<"a">>, <<"a">>, <<"l">>, <<"d">>, <<"h">>, <<"e">> >>

(***************************************************************************)
(* Claims about the defaults written into plugin objects.                  *)
(***************************************************************************)
\* the step in which the resolver constructs the builder
Constructs == pc = "call" /\ pc' = "before"

\* the ids of the plugins getByStage returns
IdsByStage(hub, stage) == {plugin.id : plugin \in Range(getByStage(hub, stage))}

\* C37: the construction of a builder writes stage 'core' and order 0 into
\* the plugin objects that lack them: a plugin of the registry without a
\* stage is not among getByStage('core') before the call and is among it
\* after, under the same id and with order 0; a plugin that declares a
\* stage and an order is left as it was; local plugins receive the
\* defaults likewise
C37_DefaultsWritten ==
    [][Constructs =>
          /\ Len(pluginHub') = Len(pluginHub)
          /\ Len(plugins') = Len(plugins)
          /\ \A i \in 1..Len(pluginHub) :
                /\ pluginHub'[i].id = pluginHub[i].id
                /\ pluginHub[i].stage = Undefined =>
                      /\ pluginHub[i].id \notin IdsByStage(pluginHub, "core")
                      /\ pluginHub[i].id \in IdsByStage(pluginHub', "core")
                      /\ pluginHub'[i].stage = "core"
                /\ pluginHub[i].order = <<>> => pluginHub'[i].order = <<0>>
                /\ (pluginHub[i].stage # Undefined /\ pluginHub[i].order # <<>>) =>
                      pluginHub'[i] = pluginHub[i]
          /\ \A i \in 1..Len(plugins) :
                /\ plugins[i].stage = Undefined => plugins'[i].stage = "core"
                /\ plugins[i].order = <<>> => plugins'[i].order = <<0>>]_vars

\* C37 witness: the resolver has returned; 'hub-b' was registered without
\* a stage and without an order and was not returned by
\* getByStage('core') when the resolver was created; it is now, with
\* order 0, behind the plugin registered with stage 'core'
C37_Witness ==
    /\ pc = "returned"
    /\ hubAtCreation = <<HubPool[4], HubPool[3]>>
    /\ HubPool[3].stage = Undefined
    /\ getByStage(hubAtCreation, "core") = <<HubPool[4]>>
    /\ getByStage(pluginHub, "core") = <<HubPool[4], WithDefaults(HubPool[3])>>

(***************************************************************************)
(* Claims about remove.variants and a scope without states.                *)
(***************************************************************************)
\* a matching rule names the variant key in remove.variants
VariantRemoved(key) ==
    \E i \in 1..Len(config.rules.v) :
       Removes(i) /\ key \in Range(config.rules.v[i].remove.v.variants)

====
